---- MODULE Spec2Model ----
(***************************************************************************)
(* Verification model of the Trading-Tools core:                           *)
(*   - core.use_cases.place_order      (idempotent order placement)        *)
(*   - core.entities.order             (order finite-state machine)        *)
(*   - adapters.ssi.order_sync         (order status synchronizer)         *)
(*   - agents.data_agent               (tick ingestion pipeline)           *)
(*   - adapters.circuit_breaker        (circuit breaker for broker calls)  *)
(*   - adapters.retry                  (retry with exponential backoff)    *)
(*   - core.use_cases.risk_check       (pre-trade order validation)        *)
(*   - core.use_cases.price_band       (daily price band)                  *)
(*   - core.use_cases.settlement       (T+2.5 settlement)                  *)
(*   - agents.supervisor               (multi-agent trading pipeline)      *)
(*   - adapters.ssi.auth               (access token refresh)              *)
(*   - adapters.ssi.market_ws          (market data stream, reconnect)     *)
(*   - interface.app                   (application shutdown)              *)
(*   - interface.ws.manager            (WebSocket broadcast)               *)
(*   - adapters.ssi.broker             (broker calls: breaker and retry)   *)
(*   - adapters.duckdb.connection      (connection pool and its threads)   *)
(*   - interface.middleware.rate_limit (per-client token buckets)          *)
(* Each subsystem has its own specification over the shared variable list; *)
(* a specification leaves the variables of the other subsystems untouched. *)
(***************************************************************************)
EXTENDS Integers, Sequences, FiniteSets, TLC

VARIABLES
    \* ---- place_order ----
    cache,        \* IdempotencyStore._cache : key -> PlaceOrderResult
    calls,        \* one record per place_order invocation (its locals and position)
    orderRows,    \* order ids persisted through order_repo.save
    \* ---- Order entity ----
    order,        \* the current Order value (status, quantity, filled_quantity)
    lastCall,     \* the last transition_to call and its outcome
    \* ---- OrderStatusSynchronizer ----
    localStatus,  \* order store: order_id -> status
    hasBrokerId,  \* order store: order_id -> broker_order_id is set
    syncPc,       \* position of the sync loop
    openOrders,   \* _sync_cycle local: snapshot returned by get_open_orders
    brokerStatuses,\* _sync_cycle local: result of get_order_statuses
    syncIdx,      \* _sync_cycle local: index of the for loop
    lastWrite,    \* last update_status call issued by the synchronizer
    brokerReport, \* the status the broker keeps reporting per order (<< >>: it answers freely)
    \* ---- DataAgent / SSIMarketWebSocket ----
    buffer,       \* DataAgent._buffer
    running,      \* DataAgent._running
    total_ingested,
    total_flushed,
    dropped,      \* ticks the bounded deque discarded (observer, not program state)
    startPc,      \* position of start()
    ingestPc,     \* position of _ingest_loop
    flushPc,      \* position of _flush_loop
    flushBatch,   \* batch the flush loop handed to insert_batch, call in flight
    stopPc,       \* position of stop()
    stopBatch,    \* batch stop() handed to insert_batch, call in flight
    stopConn,     \* connection disconnect() is closing
    insertCalls,  \* the batches passed to insert_batch, in call order (observer)
    nextTick,     \* sequence number of the next tick of the source
    wsState,      \* SSIMarketWebSocket._state
    wsConn,       \* SSIMarketWebSocket._ws (0 = None, else the connection's number)
    connOpen,     \* connections that are open
    connCount,    \* connections opened so far
    streamPc,     \* position of the _stream_impl generator
    streamConn,   \* connection the generator is iterating
    subscribed,   \* SSIMarketWebSocket._subscribed_symbols
    connSub,      \* per open connection: the last subscription message sent on it
    \* ---- CircuitBreaker ----
    failure_threshold,\* constructor argument
    recovery_timeout,\* constructor argument
    cbState,      \* CircuitBreaker.state
    failure_count,
    last_failure_time,
    success_count,
    now,          \* time.monotonic()
    cbCalls,      \* one record per call() invocation
    cbLast,       \* the last step taken on the breaker (observer)
    streak,       \* failed calls since the breaker was last CLOSED with count 0 (observer)
    \* ---- retry_async ----
    max_retries,  \* RetryConfig.max_retries
    retryable_exceptions,\* RetryConfig.retryable_exceptions
    retryPc,      \* position of retry_async
    attempt,      \* the for loop's variable
    funcCalls,    \* number of times func was called (observer)
    raisedSeq,    \* exceptions func raised, in order (observer)
    retryResult,  \* what retry_async returned or raised
    \* ---- validate_order ----
    rcInput,      \* the arguments of validate_order
    rcResult,     \* the RiskCheckResult it returned
    \* ---- calculate_price_band ----
    pbExchange,   \* the exchange argument
    pbReference,  \* the reference_price argument, in VND
    pbBand,       \* the PriceBand it returned
    \* ---- can_sell_now ----
    stBuyDate,    \* the buy_date argument
    stCurrentDate,\* the current_date argument
    stHour,       \* the current_hour argument
    stResult,     \* what can_sell_now returned, << >> before the call
    \* ---- trading pipeline ----
    plConfig,     \* how the graph was built: fundamental agent, kill switch, broker
    plState,      \* the shared AgentState
    plNode,       \* the node the graph runs next
    plTrace,      \* the nodes that have run, in order (observer)
    plSubmitted,  \* idempotency keys handed to broker.place_order (observer)
    \* ---- SSIAuthClient ----
    authToken,    \* SSIAuthClient._token (access_token 0 = None)
    authNow,      \* time.monotonic(), in seconds
    authLock,     \* _refresh_lock: the caller holding it, 0 = free
    authWaiters,  \* _refresh_lock: the callers queued on it, in order
    authCalls,    \* one record per get_access_token invocation
    authRequests, \* authentication requests sent so far; request k answers token k
    \* ---- lifespan shutdown ----
    shPc,         \* position of lifespan: serving, pool_sleep, done
    shHasPool,    \* app.state.db_pool was set at startup
    poolShutdown, \* DuckDBConnectionPool._shutdown
    poolConns,    \* DuckDBConnectionPool._all_connections
    connections,  \* ConnectionManager._connections of each instance
    sockets,      \* the client WebSockets of the /ws/market endpoint
    shLog,        \* the shutdown steps lifespan has completed, in order (observer)
    \* ---- ConnectionManager.broadcast_json ----
    bcConnections,\* ConnectionManager._connections
    bcLock,       \* ConnectionManager._lock: free, or the function holding it
    bcSock,       \* per client socket: new, accepted, connected, left
    bcPc,         \* position of broadcast_json
    bcSnapshot,   \* broadcast_json local: snapshot
    bcTodo,       \* sockets of the snapshot the for loop has not reached yet
    bcDisconnected,\* broadcast_json local: disconnected
    bcSent,       \* sockets whose send_json returned (observer)
    bcAdded,      \* sockets added while the broadcast was running (observer)
    \* ---- SSIBrokerClient ----
    brBreaker,    \* SSIBrokerClient._circuit: the breaker's fields
    brNow,        \* time.monotonic(), in seconds
    brCalls,      \* per caller: position of its adapter call and retry attempt
    brStarted,    \* adapter calls started so far
    brHttp,       \* the last HTTP request sent and the breaker state at that moment (observer)
    brLast,       \* the last step that reported to the breaker (observer)
    \* ---- DuckDBConnectionPool ----
    dpMax,        \* max_connections
    dpSemaphore,  \* permits left in _semaphore
    dpShutdown,   \* _shutdown
    dpAll,        \* _all_connections
    dpOpen,       \* the handles that are open
    dpOpened,     \* handles duckdb.connect has returned so far
    dpLocal,      \* per thread: _local.conn, 0 for none
    dpPc,         \* per thread: position in acquire()
    dpShPc,       \* position of shutdown()
    dpSnapshot,   \* shutdown() local: connections
    \* ---- RateLimitMiddleware ----
    rlNow,        \* time.monotonic(), in seconds
    rlTicks,      \* advances of that clock so far
    rlBuckets,    \* _buckets: client ip -> TokenBucket
    rlOrderBuckets,\* _order_buckets
    rlLastSeen,   \* _last_seen
    rlRequestCount,\* _request_count
    rlHandled,    \* requests dispatched so far
    rlLast        \* the last request and what dispatch did with it (observer)

poVars == <<cache, calls, orderRows>>
fsmVars == <<order, lastCall>>
syncVars == <<localStatus, hasBrokerId, syncPc, openOrders, brokerStatuses,
              syncIdx, lastWrite, brokerReport>>
daVars == <<buffer, running, total_ingested, total_flushed, dropped, startPc,
            ingestPc, flushPc, flushBatch, stopPc, stopBatch, stopConn,
            insertCalls, nextTick, wsState, wsConn, connOpen, connCount,
            streamPc, streamConn, subscribed, connSub>>
cbVars == <<failure_threshold, recovery_timeout, cbState, failure_count,
            last_failure_time, success_count, now, cbCalls, cbLast, streak>>
retryVars == <<max_retries, retryable_exceptions, retryPc, attempt, funcCalls,
               raisedSeq, retryResult>>
riskVars == <<rcInput, rcResult>>
pbVars == <<pbExchange, pbReference, pbBand>>
stVars == <<stBuyDate, stCurrentDate, stHour, stResult>>
plVars == <<plConfig, plState, plNode, plTrace, plSubmitted>>
authVars == <<authToken, authNow, authLock, authWaiters, authCalls,
              authRequests>>
shVars == <<shPc, shHasPool, poolShutdown, poolConns, connections, sockets,
            shLog>>
bcVars == <<bcConnections, bcLock, bcSock, bcPc, bcSnapshot, bcTodo,
            bcDisconnected, bcSent, bcAdded>>
brVars == <<brBreaker, brNow, brCalls, brStarted, brHttp, brLast>>
dpVars == <<dpMax, dpSemaphore, dpShutdown, dpAll, dpOpen, dpOpened, dpLocal,
            dpPc, dpShPc, dpSnapshot>>
rlVars == <<rlNow, rlTicks, rlBuckets, rlOrderBuckets, rlLastSeen,
            rlRequestCount, rlHandled, rlLast>>
vars == <<poVars, fsmVars, syncVars, daVars, cbVars, retryVars, riskVars,
          pbVars, stVars, plVars, authVars, shVars, bcVars, brVars, dpVars,
          rlVars>>
notPO == <<fsmVars, syncVars, daVars, cbVars, retryVars, riskVars, pbVars,
           stVars, plVars, authVars, shVars, bcVars, brVars, dpVars, rlVars>>
notFSM == <<poVars, syncVars, daVars, cbVars, retryVars, riskVars, pbVars,
            stVars, plVars, authVars, shVars, bcVars, brVars, dpVars, rlVars>>
notSync == <<poVars, fsmVars, daVars, cbVars, retryVars, riskVars, pbVars,
             stVars, plVars, authVars, shVars, bcVars, brVars, dpVars,
             rlVars>>
notDA == <<poVars, fsmVars, syncVars, cbVars, retryVars, riskVars, pbVars,
           stVars, plVars, authVars, shVars, bcVars, brVars, dpVars, rlVars>>
notCB == <<poVars, fsmVars, syncVars, daVars, retryVars, riskVars, pbVars,
           stVars, plVars, authVars, shVars, bcVars, brVars, dpVars, rlVars>>
notRetry == <<poVars, fsmVars, syncVars, daVars, cbVars, riskVars, pbVars,
              stVars, plVars, authVars, shVars, bcVars, brVars, dpVars,
              rlVars>>
notRisk == <<poVars, fsmVars, syncVars, daVars, cbVars, retryVars, pbVars,
             stVars, plVars, authVars, shVars, bcVars, brVars, dpVars,
             rlVars>>
notPB == <<poVars, fsmVars, syncVars, daVars, cbVars, retryVars, riskVars,
           stVars, plVars, authVars, shVars, bcVars, brVars, dpVars, rlVars>>
notST == <<poVars, fsmVars, syncVars, daVars, cbVars, retryVars, riskVars,
           pbVars, plVars, authVars, shVars, bcVars, brVars, dpVars, rlVars>>
notPL == <<poVars, fsmVars, syncVars, daVars, cbVars, retryVars, riskVars,
           pbVars, stVars, authVars, shVars, bcVars, brVars, dpVars, rlVars>>
notAuth == <<poVars, fsmVars, syncVars, daVars, cbVars, retryVars, riskVars,
             pbVars, stVars, plVars, shVars, bcVars, brVars, dpVars, rlVars>>
notSH == <<poVars, fsmVars, syncVars, daVars, cbVars, retryVars, riskVars,
           pbVars, stVars, plVars, authVars, bcVars, brVars, dpVars, rlVars>>
notBC == <<poVars, fsmVars, syncVars, daVars, cbVars, retryVars, riskVars,
           pbVars, stVars, plVars, authVars, shVars, brVars, dpVars, rlVars>>
notBR == <<poVars, fsmVars, syncVars, daVars, cbVars, retryVars, riskVars,
           pbVars, stVars, plVars, authVars, shVars, bcVars, dpVars, rlVars>>
notDP == <<poVars, fsmVars, syncVars, daVars, cbVars, retryVars, riskVars,
           pbVars, stVars, plVars, authVars, shVars, bcVars, brVars, rlVars>>
notRL == <<poVars, fsmVars, syncVars, daVars, cbVars, retryVars, riskVars,
           pbVars, stVars, plVars, authVars, shVars, bcVars, brVars, dpVars>>

----------------------------------------------------------------------------
(* Bounds *)

MaxCalls == 3          \* number of place_order invocations explored
MaxLots == 2           \* largest requested quantity of an order, in lots of 100
MaxTicks == 3          \* ticks the market data source produces
MaxBufferSize == 2     \* DataAgent max_buffer_size (constructor argument)
MaxConns == 2          \* WebSocket connections the client gets to open
MaxCbCalls == 3        \* number of CircuitBreaker.call invocations explored
MaxThreshold == 2      \* largest failure_threshold explored
MaxTimeout == 2        \* largest recovery_timeout explored, in clock ticks
MaxTime == 4           \* last reading of the monotonic clock
MaxRetries == 2        \* largest max_retries explored
MaxRefSteps == 40      \* reference prices 5, 10, ... up to 5 * MaxRefSteps VND
MaxDay == 40           \* last buy date explored, in days after 2026-01-01
MaxWatch == 2          \* candidates the screener port returns
MaxAuthCallers == 3    \* concurrent get_access_token callers
MaxAuthTicks == 2      \* readings of the clock, in steps of the refresh buffer
MaxSockets == 3        \* client WebSockets of the /ws/market endpoint
MaxPoolConns == 2      \* DuckDB connections the pool gets to open
MaxBrCallers == 2      \* tasks calling the broker adapter concurrently
MaxBrCalls == 6        \* adapter calls started in a run
MaxBrTicks == 2        \* advances of the broker adapter's clock
BrTickSeconds == 15    \* seconds in one advance of that clock
MaxPoolThreads == 2    \* worker threads using the connection pool
MaxPoolHandles == 3    \* handles duckdb.connect returns in a run
MaxRlRequests == 2     \* requests the rate limiter dispatches in a run
MaxRlTicks == 1        \* advances of the rate limiter's clock

----------------------------------------------------------------------------
(* core.use_cases.place_order                                              *)

Keys == {"k1", "k2"}
Reasons == {"Kill switch active", "Risk check failed"}
\* what the risk gate does for a call: it approves, or rejects with a reason
\* (a call without risk_check_fn behaves as one whose gate approves)
RiskOutcomes == {"approved"} \cup Reasons
Calls == 1..MaxCalls
None == 0          \* Python None for order_id / broker_order_id
NoError == "None"  \* Python None for the error field

PlaceOrderResult(success, order_id, broker_order_id, error, was_duplicate) ==
    [success |-> success, order_id |-> order_id, broker_order_id |-> broker_order_id,
     error |-> error, was_duplicate |-> was_duplicate]

\* a call that has not started yet
IdleCall ==
    [pc |-> "idle", key |-> "k1", dry_run |-> FALSE,
     order_id |-> None, broker_order_id |-> None,
     result |-> PlaceOrderResult(FALSE, None, None, NoError, FALSE),
     broker_calls |-> 0, risk_calls |-> 0, after |-> {}]

\* IdempotencyStore.check: the key is in the cache
check(key) == key \in DOMAIN cache

\* a slip: the result is not stored
record_lost(c, key, result) == c

\* IdempotencyStore.record: self._cache[key] = result
record(c, key, result) ==
    [k \in (DOMAIN c) \cup {key} |-> IF k = key THEN result ELSE c[k]]

\* the result built on a cache hit (step 1)
DuplicateResult(cached) ==
    PlaceOrderResult(cached.success, cached.order_id, cached.broker_order_id,
                     NoError, TRUE)

\* the result built when the risk gate rejects (step 2)
RiskRejectedResult(reason) == PlaceOrderResult(FALSE, None, None, reason, FALSE)

\* the result built when the broker call raises (step 4)
BrokerErrorResult(order_id) ==
    PlaceOrderResult(FALSE, order_id, None, "Broker error", FALSE)

\* a slip: the broker's id is left out of the result
SuccessResultNoBrokerId(order_id, broker_order_id) ==
    PlaceOrderResult(TRUE, order_id, None, NoError, FALSE)

\* the result built after a successful submission or dry run (step 6)
SuccessResult(order_id, broker_order_id) ==
    PlaceOrderResult(TRUE, order_id, broker_order_id, NoError, FALSE)

\* uuid.uuid4(): an id no other invocation has; the invocation's own number
FreshOrderId(t) == t
\* the id the broker assigns to the submission made by invocation t
FreshBrokerId(t) == t

Returned == {t \in Calls : calls[t].pc = "done"}

\* invocations are started in the order of their numbers (they are interchangeable)
CanStart(t) ==
    /\ calls[t].pc = "idle"
    /\ t > 1 => calls[t - 1].pc # "idle"

InitPO ==
    /\ cache = [k \in {} |-> IdleCall.result]
    /\ calls = [t \in Calls |-> IdleCall]
    /\ orderRows = {}

\* step 1 hits: the stored result is returned, nothing else runs
PlaceOrderDuplicate(t, key, dry_run, risk) ==
    /\ CanStart(t)
    /\ check(key)
    /\ calls' = [calls EXCEPT ![t] =
                    [@ EXCEPT !.pc = "done", !.key = key, !.after = Returned,
                              !.result = DuplicateResult(cache[key])]]
    /\ UNCHANGED <<cache, orderRows>>
    /\ UNCHANGED notPO

\* a slip: the gate is consulted only after the order went to the broker
RejectedAfterSubmit(c, key, reason) ==
    [c EXCEPT !.pc = "done", !.key = key, !.risk_calls = 1, !.broker_calls = 1,
              !.result = RiskRejectedResult(reason)]

\* the invocation when step 2 rejects: only the gate has run, the result is built
RejectedAtGate(c, key, reason) ==
    [c EXCEPT !.pc = "done", !.key = key, !.risk_calls = 1,
              !.result = RiskRejectedResult(reason)]

\* step 1 misses, step 2 rejects: the rejection is recorded and returned
PlaceOrderRiskRejected(t, key, dry_run, risk) ==
    /\ CanStart(t)
    /\ ~check(key)
    /\ risk \in Reasons
    /\ cache' = record(cache, key, RiskRejectedResult(risk))
    /\ calls' = [calls EXCEPT ![t] =
                    [RejectedAtGate(@, key, risk) EXCEPT !.after = Returned]]
    /\ UNCHANGED orderRows
    /\ UNCHANGED notPO

\* steps 1-2 pass, step 3 assigns the order id, step 4 awaits broker.place_order
PlaceOrderSubmit(t, key, risk) ==
    /\ CanStart(t)
    /\ ~check(key)
    /\ risk \notin Reasons
    /\ calls' = [calls EXCEPT ![t] =
                    [@ EXCEPT !.pc = "broker", !.key = key, !.dry_run = FALSE,
                              !.after = Returned,
                              !.risk_calls = 1,
                              !.order_id = FreshOrderId(t), !.broker_calls = 1]]
    /\ UNCHANGED <<cache, orderRows>>
    /\ UNCHANGED notPO

\* steps 1-2 pass, dry run: no broker call, step 5 awaits order_repo.save
PlaceOrderDryRun(t, key, risk) ==
    /\ CanStart(t)
    /\ ~check(key)
    /\ risk \notin Reasons
    /\ calls' = [calls EXCEPT ![t] =
                    [@ EXCEPT !.pc = "persist", !.key = key, !.dry_run = TRUE,
                              !.after = Returned,
                              !.risk_calls = 1,
                              !.order_id = FreshOrderId(t)]]
    /\ UNCHANGED <<cache, orderRows>>
    /\ UNCHANGED notPO

\* broker.place_order returns the broker's id; step 5 awaits order_repo.save
BrokerReturns(t) ==
    /\ calls[t].pc = "broker"
    /\ calls' = [calls EXCEPT ![t] =
                    [@ EXCEPT !.pc = "persist", !.broker_order_id = FreshBrokerId(t)]]
    /\ UNCHANGED <<cache, orderRows>>
    /\ UNCHANGED notPO

\* broker.place_order raises: the failure is recorded and returned
BrokerRaises(t) ==
    /\ calls[t].pc = "broker"
    /\ cache' = record(cache, calls[t].key, BrokerErrorResult(calls[t].order_id))
    /\ calls' = [calls EXCEPT ![t] =
                    [@ EXCEPT !.pc = "done", !.order_id = None,
                              !.result = BrokerErrorResult(calls[t].order_id)]]
    /\ UNCHANGED orderRows
    /\ UNCHANGED notPO

\* order_repo.save returns (saved) or raises (logged); step 6 records success.
\* A call without an order_repo behaves as one whose save step takes no time.
PersistDone(t, saved) ==
    /\ calls[t].pc = "persist"
    /\ orderRows' = IF saved THEN orderRows \cup {calls[t].order_id} ELSE orderRows
    /\ cache' = record(cache, calls[t].key,
                       SuccessResult(calls[t].order_id, calls[t].broker_order_id))
    /\ calls' = [calls EXCEPT ![t] =
                    [@ EXCEPT !.pc = "done", !.order_id = None, !.broker_order_id = None,
                              !.result = SuccessResult(calls[t].order_id,
                                                       calls[t].broker_order_id)]]
    /\ UNCHANGED notPO

NextPO ==
    \/ \E t \in Calls, key \in Keys, dry_run \in BOOLEAN, risk \in RiskOutcomes :
          \/ PlaceOrderDuplicate(t, key, dry_run, risk)
          \/ PlaceOrderRiskRejected(t, key, dry_run, risk)
    \/ \E t \in Calls, key \in Keys, risk \in RiskOutcomes :
          \/ PlaceOrderSubmit(t, key, risk)
          \/ PlaceOrderDryRun(t, key, risk)
    \/ \E t \in Calls : BrokerReturns(t) \/ BrokerRaises(t)
    \/ \E t \in Calls, saved \in BOOLEAN : PersistDone(t, saved)

----------------------------------------------------------------------------
(* core.entities.order                                                     *)

OrderStatus == {"CREATED", "PENDING", "PARTIAL_FILL", "MATCHED", "REJECTED",
                "BROKER_REJECTED", "CANCELLED"}

\* a plausible slip in the table: a terminal state given a successor
BadValidTransitions(status) ==
    CASE status = "CREATED"      -> {"PENDING", "REJECTED", "CANCELLED"}
      [] status = "PENDING"      -> {"PARTIAL_FILL", "MATCHED", "BROKER_REJECTED", "CANCELLED"}
      [] status = "PARTIAL_FILL" -> {"PARTIAL_FILL", "MATCHED", "CANCELLED"}
      [] status = "MATCHED"      -> {"CANCELLED"}
      [] OTHER                   -> {}

\* _VALID_TRANSITIONS.get(status, frozenset())
ValidTransitions(status) ==
    CASE status = "CREATED"         -> {"PENDING", "REJECTED", "CANCELLED"}
      [] status = "PENDING"         -> {"PARTIAL_FILL", "MATCHED", "BROKER_REJECTED", "CANCELLED"}
      [] status = "PARTIAL_FILL"    -> {"PARTIAL_FILL", "MATCHED", "CANCELLED"}
      [] status = "MATCHED"         -> {}
      [] status = "REJECTED"        -> {}
      [] status = "BROKER_REJECTED" -> {}
      [] status = "CANCELLED"       -> {}
      [] OTHER                      -> {}

\* Order.is_terminal
is_terminal(status) == Cardinality(ValidTransitions(status)) = 0

\* keyword arguments of transition_to: none, or filled_quantity = n
Patches == {{}} \cup {{n} : n \in 0..(MaxLots + 1)}

\* dataclasses.replace(self, status = new_status, **kwargs)
replace(o, new_status, patch) ==
    [o EXCEPT !.status = new_status,
              !.filled_quantity = IF patch = {} THEN @ ELSE CHOOSE n \in patch : TRUE]

\* a plausible slip: "if valid_next and new_status not in valid_next", which lets
\* an order with no valid successor go anywhere
transition_to_lax(o, new_status, patch) ==
    IF ValidTransitions(o.status) # {} /\ new_status \notin ValidTransitions(o.status)
    THEN [raised |-> "InvalidOrderTransitionError", order |-> o]
    ELSE [raised |-> "None", order |-> replace(o, new_status, patch)]

\* Order.transition_to: the new order, or the error with the order untouched
transition_to(o, new_status, patch) ==
    IF new_status \notin ValidTransitions(o.status)
    THEN [raised |-> "InvalidOrderTransitionError", order |-> o]
    ELSE [raised |-> "None", order |-> replace(o, new_status, patch)]

NoCall == [from |-> "CREATED", to |-> "CREATED", raised |-> "no call"]

\* orders are created in CREATED with nothing filled
InitFSM ==
    /\ order \in {[status |-> "CREATED", quantity |-> q, filled_quantity |-> 0] :
                     q \in 1..MaxLots}
    /\ lastCall = NoCall

\* a caller applies transition_to and keeps the order it returns
TransitionTo(new_status, patch) ==
    LET r == transition_to(order, new_status, patch) IN
    /\ order' = r.order
    /\ lastCall' = [from |-> order.status, to |-> new_status, raised |-> r.raised]
    /\ UNCHANGED notFSM

NextFSM == \E new_status \in OrderStatus, patch \in Patches : TransitionTo(new_status, patch)

----------------------------------------------------------------------------
(* adapters.ssi.order_sync                                                 *)

\* the orders of the local store, in the order get_open_orders lists them
OrderSeq == <<"ord-2", "ord-1">>
OrderIds == {OrderSeq[i] : i \in DOMAIN OrderSeq}

\* statuses the broker reports; "Unknown" stands for any status outside the table
SSIStatuses == {"New", "Pending", "PartiallyFilled", "Filled", "Cancelled",
                "Rejected", "Expired", "Unknown"}

\* SSI_STATUS_MAP.get(ssi_status); "None" when the status is not in the table
SSI_STATUS_MAP(ssi_status) ==
    CASE ssi_status = "New"             -> "PENDING"
      [] ssi_status = "Pending"         -> "PENDING"
      [] ssi_status = "PartiallyFilled" -> "PARTIAL"
      [] ssi_status = "Filled"          -> "MATCHED"
      [] ssi_status = "Cancelled"       -> "CANCELLED"
      [] ssi_status = "Rejected"        -> "BROKER_REJECTED"
      [] ssi_status = "Expired"         -> "CANCELLED"
      [] OTHER                          -> "None"

\* OrderStatusSynchronizer.reconcile_status
reconcile_status(broker_data) == SSI_STATUS_MAP(broker_data)

\* the store's filter for get_open_orders
TerminalStatuses == {"MATCHED", "REJECTED", "BROKER_REJECTED", "CANCELLED"}

\* rows returned by get_open_orders: id, status and whether a broker id is set
OpenOrderRows ==
    LET open == SelectSeq(OrderSeq, LAMBDA o : localStatus[o] \notin TerminalStatuses)
    IN  [i \in DOMAIN open |->
            [order_id |-> open[i], status |-> localStatus[open[i]],
             broker_order_id |-> hasBrokerId[open[i]]]]

\* broker_ids of _sync_cycle
broker_ids(rows) == {rows[i].order_id : i \in {j \in DOMAIN rows : rows[j].broker_order_id}}

NoWrite == [order_id |-> "none", old |-> "none", new |-> "none"]

\* an order never sent to the broker has no broker id
InitSync ==
    /\ localStatus \in [OrderIds -> OrderStatus]
    /\ hasBrokerId \in [OrderIds -> BOOLEAN]
    /\ \A o \in OrderIds : localStatus[o] \in {"CREATED", "REJECTED"} => ~hasBrokerId[o]
    /\ syncPc = "sleep"
    /\ openOrders = << >>
    /\ brokerStatuses = [o \in {} |-> "Unknown"]
    /\ syncIdx = 1
    /\ lastWrite = NoWrite
    /\ brokerReport = << >>

\* the same store, with a broker that reports one status per order in every cycle
InitSyncSteady ==
    /\ localStatus \in [OrderIds -> OrderStatus]
    /\ hasBrokerId \in [OrderIds -> BOOLEAN]
    /\ \A o \in OrderIds : localStatus[o] \in {"CREATED", "REJECTED"} => ~hasBrokerId[o]
    /\ syncPc = "sleep"
    /\ openOrders = << >>
    /\ brokerStatuses = [o \in {} |-> "Unknown"]
    /\ syncIdx = 1
    /\ lastWrite = NoWrite
    /\ brokerReport \in [OrderIds -> SSIStatuses]

SyncLocals == <<openOrders, brokerStatuses, syncIdx>>

\* _sync_cycle begins: get_open_orders returns nothing to ask the broker about
SyncNothingOpen ==
    /\ syncPc = "sleep"
    /\ broker_ids(OpenOrderRows) = {}
    /\ UNCHANGED <<localStatus, hasBrokerId, syncPc, SyncLocals, lastWrite>>
    /\ UNCHANGED brokerReport
    /\ UNCHANGED notSync

\* _sync_cycle begins: open orders are fetched, the broker is asked for their statuses
SyncFetchOpen ==
    /\ syncPc = "sleep"
    /\ broker_ids(OpenOrderRows) # {}
    /\ openOrders' = OpenOrderRows
    /\ syncPc' = "fetching"
    /\ UNCHANGED <<localStatus, hasBrokerId, brokerStatuses, syncIdx, lastWrite>>
    /\ UNCHANGED brokerReport
    /\ UNCHANGED notSync

\* get_order_statuses returns: any status for any subset of the ids asked for
\* (an exception gives the empty result)
SyncBrokerReplies ==
    /\ syncPc = "fetching"
    /\ \E known \in SUBSET broker_ids(openOrders) :
          \E reply \in [known -> SSIStatuses] : brokerStatuses' = reply
    /\ syncIdx' = 1
    /\ syncPc' = "loop"
    /\ UNCHANGED <<localStatus, hasBrokerId, openOrders, lastWrite>>
    /\ UNCHANGED brokerReport
    /\ UNCHANGED notSync

\* the order the for loop is at
CurrentRow == openOrders[syncIdx]

\* a slip in the comparison: "new_status == old_status"
NeedsUpdateWhenEqual(row) ==
    /\ row.broker_order_id
    /\ row.order_id \in DOMAIN brokerStatuses
    /\ SSI_STATUS_MAP(brokerStatuses[row.order_id]) # "None"
    /\ SSI_STATUS_MAP(brokerStatuses[row.order_id]) = row.status

\* the loop body decides to call update_status
NeedsUpdate(row) ==
    /\ row.broker_order_id
    /\ row.order_id \in DOMAIN brokerStatuses
    /\ reconcile_status(brokerStatuses[row.order_id]) # "None"
    /\ reconcile_status(brokerStatuses[row.order_id]) # row.status

\* loop body: no broker id, no broker status, unmapped status or unchanged status
SyncSkip ==
    /\ syncPc = "loop"
    /\ syncIdx <= Len(openOrders)
    /\ ~NeedsUpdate(CurrentRow)
    /\ syncIdx' = syncIdx + 1
    /\ UNCHANGED <<localStatus, hasBrokerId, syncPc, openOrders, brokerStatuses, lastWrite>>
    /\ UNCHANGED brokerReport
    /\ UNCHANGED notSync

\* loop body: update_status(order_id, new_status, broker_data) is issued and written
SyncUpdate ==
    /\ syncPc = "loop"
    /\ syncIdx <= Len(openOrders)
    /\ NeedsUpdate(CurrentRow)
    /\ LET o == CurrentRow.order_id
           new_status == reconcile_status(brokerStatuses[o])
       IN  /\ localStatus' = [localStatus EXCEPT ![o] = new_status]
           /\ lastWrite' = [order_id |-> o, old |-> localStatus[o], new |-> new_status]
    /\ syncIdx' = syncIdx + 1
    /\ UNCHANGED <<hasBrokerId, syncPc, openOrders, brokerStatuses>>
    /\ UNCHANGED brokerReport
    /\ UNCHANGED notSync

\* loop body: update_status raises; the error is logged and the loop goes on
SyncUpdateFails ==
    /\ syncPc = "loop"
    /\ syncIdx <= Len(openOrders)
    /\ NeedsUpdate(CurrentRow)
    /\ syncIdx' = syncIdx + 1
    /\ UNCHANGED <<localStatus, hasBrokerId, syncPc, openOrders, brokerStatuses, lastWrite>>
    /\ UNCHANGED brokerReport
    /\ UNCHANGED notSync

\* the for loop is over: sleep until the next cycle
SyncCycleEnds ==
    /\ syncPc = "loop"
    /\ syncIdx > Len(openOrders)
    /\ syncPc' = "sleep"
    /\ openOrders' = << >>
    /\ brokerStatuses' = [o \in {} |-> "Unknown"]
    /\ syncIdx' = 1
    /\ UNCHANGED <<localStatus, hasBrokerId, lastWrite>>
    /\ UNCHANGED brokerReport
    /\ UNCHANGED notSync

\* the order management side cancels an order through Order.transition_to
OmsCancel(o) ==
    /\ "CANCELLED" \in ValidTransitions(localStatus[o])
    /\ localStatus' = [localStatus EXCEPT ![o] = "CANCELLED"]
    /\ UNCHANGED <<hasBrokerId, syncPc, SyncLocals, lastWrite>>
    /\ UNCHANGED brokerReport
    /\ UNCHANGED notSync

\* get_order_statuses returns the status the broker keeps reporting, for every id
\* asked for
SyncBrokerRepliesSteady ==
    /\ syncPc = "fetching"
    /\ brokerStatuses' = [o \in broker_ids(openOrders) |-> brokerReport[o]]
    /\ syncIdx' = 1
    /\ syncPc' = "loop"
    /\ UNCHANGED <<localStatus, hasBrokerId, openOrders, lastWrite>>
    /\ UNCHANGED brokerReport
    /\ UNCHANGED notSync

NextSync ==
    \/ SyncNothingOpen
    \/ SyncFetchOpen
    \/ SyncBrokerReplies
    \/ SyncSkip
    \/ SyncUpdate
    \/ SyncUpdateFails
    \/ SyncCycleEnds
    \/ \E o \in OrderIds : OmsCancel(o)

\* the sync loop with a steady broker and calls that succeed: start() runs
\* _sync_cycle, sleeps and runs it again for as long as _running is set
NextSyncSteady ==
    \/ SyncNothingOpen
    \/ SyncFetchOpen
    \/ SyncBrokerRepliesSteady
    \/ SyncSkip
    \/ SyncUpdate
    \/ SyncCycleEnds

-----------------------------------------------------------------------------
(* agents.data_agent and adapters.ssi.market_ws                            *)

\* deque(maxlen = max_buffer_size).append from the left end: a plausible slip
appendleft(buf, tick) ==
    IF Len(buf) >= MaxBufferSize
    THEN <<tick>> \o SubSeq(buf, 1, Len(buf) - 1)
    ELSE <<tick>> \o buf

\* deque(maxlen = max_buffer_size).append: a full deque discards its oldest item
append(buf, tick) ==
    IF Len(buf) >= MaxBufferSize
    THEN Append(Tail(buf), tick)
    ELSE Append(buf, tick)

\* batch = list(self._buffer)
DrainBatch(buf) == buf

\* insert_batch returns the number of rows inserted
insert_batch(batch) == Len(batch)

InitDA ==
    /\ buffer = << >>
    /\ running = FALSE
    /\ total_ingested = 0
    /\ total_flushed = 0
    /\ dropped = 0
    /\ startPc = "init"
    /\ ingestPc = "init"
    /\ flushPc = "init"
    /\ flushBatch = << >>
    /\ stopPc = "init"
    /\ stopBatch = << >>
    /\ stopConn = 0
    /\ insertCalls = << >>
    /\ nextTick = 1
    /\ wsState = "disconnected"
    /\ wsConn = 0
    /\ connOpen = {}
    /\ connCount = 0
    /\ streamPc = "init"
    /\ streamConn = 0
    /\ subscribed = {}
    /\ connSub = [c \in 1..MaxConns |-> << >>]

counters == <<total_ingested, total_flushed, dropped>>
wsVars == <<wsState, wsConn, connOpen, connCount, streamPc, streamConn>>
subVars == <<subscribed, connSub>>

\* the symbol lists subscribe() is called with
SubscriptionSets == {{}, {"FPT"}, {"FPT", "VNM"}}

\* a slip: the reconnect loop does not send the subscription again
replay_nothing(symbols, sub) == sub

\* _reconnect_with_backoff, after connect(): a non-empty _subscribed_symbols is
\* sent on the new connection; sub is the connection's last subscription message
replay_subscription(symbols, sub) ==
    IF symbols # {} THEN <<symbols>> ELSE sub

\* start(): _running = True, then connect() awaits the connection
DAStart ==
    /\ startPc = "init"
    /\ running' = TRUE
    /\ wsState' = "connecting"
    /\ startPc' = "connecting"
    /\ UNCHANGED <<buffer, counters, ingestPc, flushPc, flushBatch, stopPc, stopBatch,
                   stopConn, insertCalls, nextTick, wsConn, connOpen, connCount,
                   streamPc, streamConn>>
    /\ UNCHANGED subVars
    /\ UNCHANGED notDA

\* connect() succeeds; the task group starts the ingest loop, which enters the
\* stream generator and iterates the connection, and the flush loop, which sleeps
DAConnected ==
    /\ startPc = "connecting"
    /\ connCount < MaxConns
    /\ connCount' = connCount + 1
    /\ wsConn' = connCount + 1
    /\ connOpen' = connOpen \cup {connCount + 1}
    /\ wsState' = "connected"
    /\ startPc' = "running"
    /\ ingestPc' = "iter"
    /\ streamPc' = "recv"
    /\ streamConn' = connCount + 1
    /\ flushPc' = IF running THEN "sleep" ELSE "done"
    /\ UNCHANGED <<buffer, running, counters, flushBatch, stopPc, stopBatch, stopConn,
                   insertCalls, nextTick>>
    /\ UNCHANGED subVars
    /\ UNCHANGED notDA

\* connect() raises: start() fails before any task exists
DAConnectFails ==
    /\ startPc = "connecting"
    /\ wsState' = "disconnected"
    /\ startPc' = "failed"
    /\ UNCHANGED <<buffer, running, counters, ingestPc, flushPc, flushBatch, stopPc,
                   stopBatch, stopConn, insertCalls, nextTick, wsConn, connOpen,
                   connCount, streamPc, streamConn>>
    /\ UNCHANGED subVars
    /\ UNCHANGED notDA

\* a message arrives and parses: the generator yields the tick and the ingest loop
\* appends it, counts it, and only then looks at _running
StreamTick ==
    /\ ingestPc = "iter"
    /\ streamPc = "recv"
    /\ streamConn \in connOpen
    /\ nextTick <= MaxTicks
    /\ buffer' = append(buffer, nextTick)
    /\ dropped' = IF Len(buffer) >= MaxBufferSize THEN dropped + 1 ELSE dropped
    /\ total_ingested' = total_ingested + 1
    /\ nextTick' = nextTick + 1
    /\ ingestPc' = IF running THEN "iter" ELSE "done"
    /\ streamPc' = IF running THEN "recv" ELSE "ended"
    /\ UNCHANGED <<running, total_flushed, startPc, flushPc, flushBatch, stopPc,
                   stopBatch, stopConn, insertCalls, wsState, wsConn, connOpen,
                   connCount, streamConn>>
    /\ UNCHANGED subVars
    /\ UNCHANGED notDA

\* raw messages the feed can deliver: a well-formed tick, text that is not JSON,
\* a volume that is not a number, JSON that is not an object, and a price that
\* is not a number
RawMessages == {"tick", "not_json", "bad_volume", "non_object", "bad_price"}

\* the exception the body of _parse_tick raises on a raw message: json.loads and
\* int() raise ValueError, .get on a non-object raises AttributeError, and
\* Decimal() raises decimal.InvalidOperation, an ArithmeticError
parse_error(raw) ==
    CASE raw = "not_json" -> "ValueError"
      [] raw = "bad_volume" -> "ValueError"
      [] raw = "non_object" -> "AttributeError"
      [] raw = "bad_price" -> "InvalidOperation"
      [] OTHER -> "none"

\* except (KeyError, ValueError, TypeError) in _parse_tick
PARSE_CAUGHT == {"KeyError", "ValueError", "TypeError"}

\* _parse_tick: the Tick, None for an exception it catches, else the exception
\* leaves it
parse_tick(raw) ==
    IF parse_error(raw) = "none" THEN "Tick"
    ELSE IF parse_error(raw) \in PARSE_CAUGHT THEN "None"
    ELSE "raise"

\* a message arrives for which _parse_tick returns None: nothing is yielded and
\* the async for takes the next message
StreamMessageDropped(raw) ==
    /\ ingestPc = "iter"
    /\ streamPc = "recv"
    /\ streamConn \in connOpen
    /\ parse_tick(raw) = "None"
    /\ UNCHANGED <<buffer, running, counters, startPc, ingestPc, flushPc, flushBatch,
                   stopPc, stopBatch, stopConn, insertCalls, nextTick, wsVars>>
    /\ UNCHANGED subVars
    /\ UNCHANGED notDA

\* a message arrives on which _parse_tick raises: the except clause of
\* _stream_impl sets _ws = None and RECONNECTING without closing the socket, and
\* the loop goes to the backoff sleep
StreamParseRaises(raw) ==
    /\ ingestPc = "iter"
    /\ streamPc = "recv"
    /\ streamConn \in connOpen
    /\ parse_tick(raw) = "raise"
    /\ wsConn' = 0
    /\ wsState' = "reconnecting"
    /\ streamPc' = "backoff"
    /\ UNCHANGED <<buffer, running, counters, startPc, ingestPc, flushPc, flushBatch,
                   stopPc, stopBatch, stopConn, insertCalls, nextTick, connOpen,
                   connCount, streamConn>>
    /\ UNCHANGED subVars
    /\ UNCHANGED notDA

\* the connection breaks: _ws = None, state RECONNECTING, then the backoff sleep
StreamTransportError ==
    /\ ingestPc = "iter"
    /\ streamPc = "recv"
    /\ streamConn \in connOpen
    /\ connOpen' = connOpen \ {streamConn}
    /\ wsConn' = 0
    /\ wsState' = "reconnecting"
    /\ streamPc' = "backoff"
    /\ UNCHANGED <<buffer, running, counters, startPc, ingestPc, flushPc, flushBatch,
                   stopPc, stopBatch, stopConn, insertCalls, nextTick, connCount,
                   streamConn>>
    /\ connSub' = [connSub EXCEPT ![streamConn] = << >>]
    /\ UNCHANGED subscribed
    /\ UNCHANGED notDA

\* the iterated connection was closed normally: the async for ends without an
\* exception and the while loop runs again (FATAL is never set)
StreamClosed ==
    /\ ingestPc = "iter"
    /\ streamPc = "recv"
    /\ streamConn \notin connOpen
    /\ IF wsConn = 0 \/ wsState # "connected"
       THEN /\ wsState' = "reconnecting"
            /\ streamPc' = "backoff"
            /\ streamConn' = streamConn
       ELSE /\ wsState' = wsState
            /\ streamPc' = "recv"
            /\ streamConn' = wsConn
    /\ UNCHANGED <<buffer, running, counters, startPc, ingestPc, flushPc, flushBatch,
                   stopPc, stopBatch, stopConn, insertCalls, nextTick, wsConn,
                   connOpen, connCount>>
    /\ UNCHANGED subVars
    /\ UNCHANGED notDA

\* _reconnect_with_backoff: the sleep is over, connect() starts
StreamBackoffDone ==
    /\ ingestPc = "iter"
    /\ streamPc = "backoff"
    /\ wsState' = "connecting"
    /\ streamPc' = "connecting"
    /\ UNCHANGED <<buffer, running, counters, startPc, ingestPc, flushPc, flushBatch,
                   stopPc, stopBatch, stopConn, insertCalls, nextTick, wsConn,
                   connOpen, connCount, streamConn>>
    /\ UNCHANGED subVars
    /\ UNCHANGED notDA

\* connect() succeeds inside the reconnect loop: a non-empty subscription is sent
\* on the new connection and awaited; with none the generator iterates at once
StreamConnectOk ==
    /\ ingestPc = "iter"
    /\ streamPc = "connecting"
    /\ connCount < MaxConns
    /\ connCount' = connCount + 1
    /\ wsConn' = connCount + 1
    /\ connOpen' = connOpen \cup {connCount + 1}
    /\ wsState' = "connected"
    /\ connSub' = [connSub EXCEPT
                     ![connCount + 1] = replay_subscription(subscribed, @)]
    /\ streamPc' = IF subscribed # {} THEN "subscribing" ELSE "recv"
    /\ streamConn' = connCount + 1
    /\ UNCHANGED <<buffer, running, counters, startPc, ingestPc, flushPc, flushBatch,
                   stopPc, stopBatch, stopConn, insertCalls, nextTick, subscribed>>
    /\ UNCHANGED notDA

\* the send of the subscription returns: _reconnect_with_backoff returns and the
\* generator iterates the new connection
StreamSubscribeSent ==
    /\ ingestPc = "iter"
    /\ streamPc = "subscribing"
    /\ streamPc' = "recv"
    /\ UNCHANGED <<buffer, running, counters, startPc, ingestPc, flushPc, flushBatch,
                   stopPc, stopBatch, stopConn, insertCalls, nextTick, wsState,
                   wsConn, connOpen, connCount, streamConn>>
    /\ UNCHANGED subVars
    /\ UNCHANGED notDA

\* the send of the subscription raises: the reconnect loop starts over
StreamSubscribeFails ==
    /\ ingestPc = "iter"
    /\ streamPc = "subscribing"
    /\ wsState' = "reconnecting"
    /\ streamPc' = "backoff"
    /\ UNCHANGED <<buffer, running, counters, startPc, ingestPc, flushPc, flushBatch,
                   stopPc, stopBatch, stopConn, insertCalls, nextTick, wsConn,
                   connOpen, connCount, streamConn>>
    /\ UNCHANGED subVars
    /\ UNCHANGED notDA

\* subscribe(symbols), called by a user of the client: the list is stored, and it
\* is sent when a connection is up
Subscribe(symbols) ==
    /\ subscribed' = symbols
    /\ connSub' = IF wsConn # 0 /\ wsState = "connected"
                  THEN [connSub EXCEPT ![wsConn] = <<symbols>>]
                  ELSE connSub
    /\ UNCHANGED <<buffer, running, counters, startPc, ingestPc, flushPc, flushBatch,
                   stopPc, stopBatch, stopConn, insertCalls, nextTick, wsVars>>
    /\ UNCHANGED notDA

\* connect() raises inside the reconnect loop: state DISCONNECTED, then the loop
\* sets RECONNECTING again and sleeps
StreamConnectFails ==
    /\ ingestPc = "iter"
    /\ streamPc = "connecting"
    /\ wsState' = "reconnecting"
    /\ streamPc' = "backoff"
    /\ UNCHANGED <<buffer, running, counters, startPc, ingestPc, flushPc, flushBatch,
                   stopPc, stopBatch, stopConn, insertCalls, nextTick, wsConn,
                   connOpen, connCount, streamConn>>
    /\ UNCHANGED subVars
    /\ UNCHANGED notDA

\* _flush_loop: the sleep is over and _flush_buffer runs; an empty buffer returns
\* at once, otherwise the buffer is drained and insert_batch is awaited
FlushWake ==
    /\ flushPc = "sleep"
    /\ IF buffer = << >>
       THEN /\ flushPc' = IF running THEN "sleep" ELSE "done"
            /\ UNCHANGED <<buffer, flushBatch, insertCalls>>
       ELSE /\ flushBatch' = DrainBatch(buffer)
            /\ buffer' = << >>
            /\ insertCalls' = Append(insertCalls, DrainBatch(buffer))
            /\ flushPc' = "insert"
    /\ UNCHANGED <<running, counters, startPc, ingestPc, stopPc, stopBatch, stopConn,
                   nextTick, wsVars>>
    /\ UNCHANGED subVars
    /\ UNCHANGED notDA

\* insert_batch returns to the flush loop, which then tests _running
FlushInsertDone ==
    /\ flushPc = "insert"
    /\ total_flushed' = total_flushed + insert_batch(flushBatch)
    /\ flushBatch' = << >>
    /\ flushPc' = IF running THEN "sleep" ELSE "done"
    /\ UNCHANGED <<buffer, running, total_ingested, dropped, startPc, ingestPc, stopPc,
                   stopBatch, stopConn, insertCalls, nextTick, wsVars>>
    /\ UNCHANGED subVars
    /\ UNCHANGED notDA

\* insert_batch raises in the flush loop: the task group cancels the ingest loop
FlushInsertFails ==
    /\ flushPc = "insert"
    /\ flushBatch' = << >>
    /\ flushPc' = "failed"
    /\ ingestPc' = IF ingestPc = "iter" THEN "cancelled" ELSE ingestPc
    /\ streamPc' = IF ingestPc = "iter" THEN "ended" ELSE streamPc
    /\ UNCHANGED <<buffer, running, counters, startPc, stopPc, stopBatch, stopConn,
                   insertCalls, nextTick, wsState, wsConn, connOpen, connCount,
                   streamConn>>
    /\ UNCHANGED subVars
    /\ UNCHANGED notDA

\* stop(): _running = False; disconnect() sets DISCONNECTED and awaits the close
\* of the current connection
StopBegin ==
    /\ stopPc = "init"
    /\ startPc = "running"
    /\ wsConn # 0
    /\ running' = FALSE
    /\ wsState' = "disconnected"
    /\ stopConn' = wsConn
    /\ stopPc' = "closing"
    /\ UNCHANGED <<buffer, counters, startPc, ingestPc, flushPc, flushBatch, stopBatch,
                   insertCalls, nextTick, wsConn, connOpen, connCount, streamPc,
                   streamConn>>
    /\ UNCHANGED subVars
    /\ UNCHANGED notDA

\* stop() while _ws is None: disconnect() has nothing to close and the final
\* _flush_buffer runs at once
StopBeginNoConn ==
    /\ stopPc = "init"
    /\ startPc = "running"
    /\ wsConn = 0
    /\ running' = FALSE
    /\ wsState' = "disconnected"
    /\ IF buffer = << >>
       THEN /\ stopPc' = "done"
            /\ UNCHANGED <<buffer, stopBatch, insertCalls>>
       ELSE /\ stopBatch' = DrainBatch(buffer)
            /\ buffer' = << >>
            /\ insertCalls' = Append(insertCalls, DrainBatch(buffer))
            /\ stopPc' = "insert"
    /\ UNCHANGED <<counters, startPc, ingestPc, flushPc, flushBatch, stopConn, nextTick,
                   wsConn, connOpen, connCount, streamPc, streamConn>>
    /\ UNCHANGED subVars
    /\ UNCHANGED notDA

\* the close completes: disconnect() sets _ws = None, then the final _flush_buffer
StopClosed ==
    /\ stopPc = "closing"
    /\ connOpen' = connOpen \ {stopConn}
    /\ wsConn' = 0
    /\ IF buffer = << >>
       THEN /\ stopPc' = "done"
            /\ UNCHANGED <<buffer, stopBatch, insertCalls>>
       ELSE /\ stopBatch' = DrainBatch(buffer)
            /\ buffer' = << >>
            /\ insertCalls' = Append(insertCalls, DrainBatch(buffer))
            /\ stopPc' = "insert"
    /\ UNCHANGED <<running, counters, startPc, ingestPc, flushPc, flushBatch, stopConn,
                   nextTick, wsState, connCount, streamPc, streamConn>>
    /\ connSub' = [connSub EXCEPT ![stopConn] = << >>]
    /\ UNCHANGED subscribed
    /\ UNCHANGED notDA

\* insert_batch returns to stop(), which returns
StopInsertDone ==
    /\ stopPc = "insert"
    /\ total_flushed' = total_flushed + insert_batch(stopBatch)
    /\ stopBatch' = << >>
    /\ stopPc' = "done"
    /\ UNCHANGED <<buffer, running, total_ingested, dropped, startPc, ingestPc, flushPc,
                   flushBatch, stopConn, insertCalls, nextTick, wsVars>>
    /\ UNCHANGED subVars
    /\ UNCHANGED notDA

\* insert_batch raises in stop()
StopInsertFails ==
    /\ stopPc = "insert"
    /\ stopBatch' = << >>
    /\ stopPc' = "failed"
    /\ UNCHANGED <<buffer, running, counters, startPc, ingestPc, flushPc, flushBatch,
                   stopConn, insertCalls, nextTick, wsVars>>
    /\ UNCHANGED subVars
    /\ UNCHANGED notDA

NextDA ==
    \/ DAStart
    \/ DAConnected
    \/ DAConnectFails
    \/ StreamTick
    \/ \E raw \in RawMessages : StreamMessageDropped(raw)
    \/ \E raw \in RawMessages : StreamParseRaises(raw)
    \/ StreamTransportError
    \/ StreamClosed
    \/ StreamBackoffDone
    \/ StreamConnectOk
    \/ StreamConnectFails
    \/ StreamSubscribeSent
    \/ StreamSubscribeFails
    \/ \E symbols \in SubscriptionSets : Subscribe(symbols)
    \/ FlushWake
    \/ FlushInsertDone
    \/ FlushInsertFails
    \/ StopBegin
    \/ StopBeginNoConn
    \/ StopClosed
    \/ StopInsertDone
    \/ StopInsertFails

----------------------------------------------------------------------------
(* adapters.circuit_breaker                                                *)

CircuitState == {"closed", "open", "half_open"}
CbCalls == 1..MaxCbCalls

\* the breaker's fields as one record
Breaker ==
    [state |-> cbState, failure_count |-> failure_count,
     last_failure_time |-> last_failure_time, success_count |-> success_count]

\* a slip in the recovery test: ">" where the code has ">="
recovery_elapsed_strict(t, lft, timeout) == t - lft > timeout

\* call(), line 44: time.monotonic() - last_failure_time >= recovery_timeout
recovery_elapsed(t, lft, timeout) == t - lft >= timeout

\* a slip in _on_success: the failure counter is not reset
on_success_keep(cb) ==
    [cb EXCEPT !.state = "closed", !.success_count = @ + 1]

\* CircuitBreaker._on_success
on_success(cb) ==
    [cb EXCEPT !.state = "closed", !.failure_count = 0, !.success_count = @ + 1]

\* a slip in _on_failure: ">" where the code has ">="
on_failure_late(cb, t, threshold) ==
    [cb EXCEPT !.failure_count = @ + 1,
               !.last_failure_time = t,
               !.state = IF cb.failure_count + 1 > threshold THEN "open" ELSE @]

\* CircuitBreaker._on_failure at time t
on_failure(cb, t, threshold) ==
    [cb EXCEPT !.failure_count = @ + 1,
               !.last_failure_time = t,
               !.state = IF cb.failure_count + 1 >= threshold THEN "open" ELSE @]

\* a call() that has not started yet
IdleCbCall ==
    [pc |-> "idle", entry_state |-> "closed", invoked |-> FALSE, outcome |-> "none"]

NoCbStep ==
    [kind |-> "none", call |-> 0, state |-> "closed", failure_count |-> 0,
     last_failure_time |-> 0, time |-> 0]

\* the step just taken on the breaker, with the state it found
CbStep(kind, c) ==
    [kind |-> kind, call |-> c, state |-> cbState, failure_count |-> failure_count,
     last_failure_time |-> last_failure_time, time |-> now]

\* CircuitBreaker(name, failure_threshold, recovery_timeout): state CLOSED, counters 0
InitCB ==
    /\ failure_threshold \in 1..MaxThreshold
    /\ recovery_timeout \in 1..MaxTimeout
    /\ cbState = "closed"
    /\ failure_count = 0
    /\ last_failure_time = 0
    /\ success_count = 0
    /\ now = 0
    /\ cbCalls = [c \in CbCalls |-> IdleCbCall]
    /\ cbLast = NoCbStep
    /\ streak = 0

cbConfig == <<failure_threshold, recovery_timeout>>
cbFields == <<cbState, failure_count, last_failure_time, success_count>>

\* calls are started in the order of their numbers (they are interchangeable)
CbCanStart(c) ==
    /\ cbCalls[c].pc = "idle"
    /\ c > 1 => cbCalls[c - 1].pc # "idle"

\* call() while OPEN before the recovery timeout: CircuitOpenError, func not called
CbCallRejected(c) ==
    /\ CbCanStart(c)
    /\ cbState = "open"
    /\ ~recovery_elapsed(now, last_failure_time, recovery_timeout)
    /\ cbCalls' = [cbCalls EXCEPT ![c] =
                      [pc |-> "done", entry_state |-> cbState,
                       invoked |-> FALSE, outcome |-> "CircuitOpenError"]]
    /\ cbLast' = CbStep("rejected", c)
    /\ UNCHANGED <<cbConfig, cbFields, now, streak>>
    /\ UNCHANGED notCB

\* call() while OPEN at or after the recovery timeout: HALF_OPEN, then func is awaited
CbCallProbe(c) ==
    /\ CbCanStart(c)
    /\ cbState = "open"
    /\ recovery_elapsed(now, last_failure_time, recovery_timeout)
    /\ cbState' = "half_open"
    /\ cbCalls' = [cbCalls EXCEPT ![c] =
                      [pc |-> "inflight", entry_state |-> cbState,
                       invoked |-> TRUE, outcome |-> "none"]]
    /\ cbLast' = CbStep("admitted", c)
    /\ UNCHANGED <<cbConfig, failure_count, last_failure_time, success_count, now,
                   streak>>
    /\ UNCHANGED notCB

\* call() while CLOSED or HALF_OPEN: the test of line 43 is skipped, func is awaited
CbCallPass(c) ==
    /\ CbCanStart(c)
    /\ cbState # "open"
    /\ cbCalls' = [cbCalls EXCEPT ![c] =
                      [pc |-> "inflight", entry_state |-> cbState,
                       invoked |-> TRUE, outcome |-> "none"]]
    /\ cbLast' = CbStep("admitted", c)
    /\ UNCHANGED <<cbConfig, cbFields, now, streak>>
    /\ UNCHANGED notCB

\* func returns: _on_success, the result is returned
CbCallSucceeds(c) ==
    /\ cbCalls[c].pc = "inflight"
    /\ LET cb == on_success(Breaker)
       IN  /\ cbState' = cb.state
           /\ failure_count' = cb.failure_count
           /\ last_failure_time' = cb.last_failure_time
           /\ success_count' = cb.success_count
    /\ cbCalls' = [cbCalls EXCEPT ![c] = [@ EXCEPT !.pc = "done", !.outcome = "ok"]]
    /\ cbLast' = CbStep("success", c)
    /\ streak' = 0
    /\ UNCHANGED <<cbConfig, now>>
    /\ UNCHANGED notCB

\* func raises: _on_failure, the exception is re-raised
CbCallFails(c) ==
    /\ cbCalls[c].pc = "inflight"
    /\ LET cb == on_failure(Breaker, now, failure_threshold)
       IN  /\ cbState' = cb.state
           /\ failure_count' = cb.failure_count
           /\ last_failure_time' = cb.last_failure_time
           /\ success_count' = cb.success_count
    /\ cbCalls' = [cbCalls EXCEPT ![c] = [@ EXCEPT !.pc = "done", !.outcome = "error"]]
    /\ cbLast' = CbStep("failure", c)
    /\ streak' = streak + 1
    /\ UNCHANGED <<cbConfig, now>>
    /\ UNCHANGED notCB

\* reset(): manually back to CLOSED with failure_count 0
CbReset ==
    /\ cbState' = "closed"
    /\ failure_count' = 0
    /\ cbLast' = CbStep("reset", 0)
    /\ streak' = 0
    /\ UNCHANGED <<cbConfig, last_failure_time, success_count, now, cbCalls>>
    /\ UNCHANGED notCB

\* the monotonic clock advances
CbTick ==
    /\ now < MaxTime
    /\ now' = now + 1
    /\ UNCHANGED <<cbConfig, cbFields, cbCalls, cbLast, streak>>
    /\ UNCHANGED notCB

NextCB ==
    \/ \E c \in CbCalls :
          \/ CbCallRejected(c)
          \/ CbCallProbe(c)
          \/ CbCallPass(c)
          \/ CbCallSucceeds(c)
          \/ CbCallFails(c)
    \/ CbReset
    \/ CbTick

----------------------------------------------------------------------------
(* adapters.retry                                                          *)

\* exception classes func may raise; ValueError stands for a non-transient error
Exceptions == {"ConnectionError", "TimeoutError", "OSError", "ValueError"}

\* the classes an except clause naming cls catches (cls and its subclasses)
CaughtBy(cls) ==
    IF cls = "OSError" THEN {"OSError", "ConnectionError", "TimeoutError"} ELSE {cls}

\* _DEFAULT_RETRYABLE, and a narrower configuration
RetryableConfigs == {{"ConnectionError", "TimeoutError", "OSError"}, {"ConnectionError"}}

\* a slip: "except Exception" in place of the configured classes
is_retryable_any(exc, retryable) == exc \in Exceptions

\* except config.retryable_exceptions as exc
is_retryable(exc, retryable) == \E cls \in retryable : exc \in CaughtBy(cls)

\* retry_async is entered with a configuration; nothing has been called yet
InitRetry ==
    /\ max_retries \in -1..MaxRetries
    /\ retryable_exceptions \in RetryableConfigs
    /\ retryPc = "call"
    /\ attempt = 0
    /\ funcCalls = 0
    /\ raisedSeq = << >>
    /\ retryResult = "none"

retryConfig == <<max_retries, retryable_exceptions>>

\* range(max_retries + 1) still has an attempt to make
InRange(a) == a < max_retries + 1

\* await func() returns: retry_async returns its value
RetryCallReturns ==
    /\ retryPc = "call"
    /\ InRange(attempt)
    /\ funcCalls' = funcCalls + 1
    /\ retryPc' = "returned"
    /\ retryResult' = "value"
    /\ UNCHANGED <<retryConfig, attempt, raisedSeq>>
    /\ UNCHANGED notRetry

\* await func() raises a retryable exception before the last attempt: backoff sleep
RetryCallRaisesRetryable(exc) ==
    /\ retryPc = "call"
    /\ InRange(attempt)
    /\ is_retryable(exc, retryable_exceptions)
    /\ ~(attempt >= max_retries)
    /\ funcCalls' = funcCalls + 1
    /\ raisedSeq' = Append(raisedSeq, exc)
    /\ retryPc' = "sleep"
    /\ UNCHANGED <<retryConfig, attempt, retryResult>>
    /\ UNCHANGED notRetry

\* await func() raises a retryable exception on the last attempt: it is re-raised
RetryExhausted(exc) ==
    /\ retryPc = "call"
    /\ InRange(attempt)
    /\ is_retryable(exc, retryable_exceptions)
    /\ attempt >= max_retries
    /\ funcCalls' = funcCalls + 1
    /\ raisedSeq' = Append(raisedSeq, exc)
    /\ retryPc' = "raised"
    /\ retryResult' = exc
    /\ UNCHANGED <<retryConfig, attempt>>
    /\ UNCHANGED notRetry

\* await func() raises an exception the except clause does not catch: it propagates
RetryCallRaisesOther(exc) ==
    /\ retryPc = "call"
    /\ InRange(attempt)
    /\ ~is_retryable(exc, retryable_exceptions)
    /\ funcCalls' = funcCalls + 1
    /\ raisedSeq' = Append(raisedSeq, exc)
    /\ retryPc' = "raised"
    /\ retryResult' = exc
    /\ UNCHANGED <<retryConfig, attempt>>
    /\ UNCHANGED notRetry

\* asyncio.sleep(delay) is over: the for loop takes the next attempt
RetrySleepDone ==
    /\ retryPc = "sleep"
    /\ attempt' = attempt + 1
    /\ retryPc' = "call"
    /\ UNCHANGED <<retryConfig, funcCalls, raisedSeq, retryResult>>
    /\ UNCHANGED notRetry

\* the for loop has no attempt to make (max_retries < 0): the assert after the loop
\* fails, or with asserts compiled out "raise None" is a TypeError
RetryLoopEnds ==
    /\ retryPc = "call"
    /\ ~InRange(attempt)
    /\ retryPc' = "raised"
    /\ retryResult' \in {"AssertionError", "TypeError"}
    /\ UNCHANGED <<retryConfig, attempt, funcCalls, raisedSeq>>
    /\ UNCHANGED notRetry

NextRetry ==
    \/ RetryCallReturns
    \/ \E exc \in Exceptions :
          \/ RetryCallRaisesRetryable(exc)
          \/ RetryExhausted(exc)
          \/ RetryCallRaisesOther(exc)
    \/ RetrySleepDone
    \/ RetryLoopEnds

----------------------------------------------------------------------------
(* core.use_cases.risk_check and core.use_cases.price_band                 *)

LOT_SIZE == 100

\* price_band = None
NoBand == [ceiling_price |-> 0, floor_price |-> 0, tick_size |-> 0]

\* the inputs validate_order is applied to: prices and values in VND, quantities
\* in shares, max_position_pct in percent
RiskInputs ==
    [kill_switch_active : BOOLEAN,
     max_position_pct : {20},
     side : {"BUY", "SELL"},
     quantity : {50, 100, 200},
     price : {90, 100, 102, 110},
     price_band : {NoBand, [ceiling_price |-> 105, floor_price |-> 95, tick_size |-> 5]},
     position_value : {0},
     cash_bal : {-10000, 0, 20000, 100000},
     purchasing_power : {10000, 50000},
     sellable_qty : {0, 100, 200},
     pending_sell_qty : {0, 100}]

RiskCheckResult(approved, reason, checks_passed, checks_failed) ==
    [approved |-> approved, reason |-> reason,
     checks_passed |-> checks_passed, checks_failed |-> checks_failed]

NoResult == RiskCheckResult(FALSE, "not run", << >>, << >>)

\* validate_order_price: inside [floor, ceiling] and on the tick grid
validate_order_price(price, band) ==
    IF price > band.ceiling_price THEN FALSE
    ELSE IF price < band.floor_price THEN FALSE
    ELSE price % band.tick_size = 0

\* PortfolioState.net_asset_value
net_asset_value(in) == in.position_value + in.cash_bal

\* check 2: the tag it adds to (passed, failed); no tag without a band
PriceBandCheck(in) ==
    IF in.price_band = NoBand THEN <<<< >>, << >>>>
    ELSE IF validate_order_price(in.price, in.price_band)
         THEN <<<<"PRICE_BAND">>, << >>>>
         ELSE <<<< >>, <<"PRICE_BAND">>>>

\* check 3
LotSizeCheck(in) ==
    IF in.quantity % LOT_SIZE # 0 THEN <<<< >>, <<"LOT_SIZE">>>>
    ELSE <<<<"LOT_SIZE">>, << >>>>

\* check 4: evaluated only when nav > 0; position_pct > max_pct without the division
PositionSizeCheck(in) ==
    LET order_value == in.price * in.quantity
        nav == net_asset_value(in)
    IN  IF nav > 0
        THEN IF order_value * 100 > in.max_position_pct * nav
             THEN <<<< >>, <<"POSITION_SIZE">>>>
             ELSE <<<<"POSITION_SIZE">>, << >>>>
        ELSE <<<< >>, << >>>>

\* check 5: BUY only
BuyingPowerCheck(in) ==
    IF in.side = "BUY"
    THEN IF in.price * in.quantity > in.purchasing_power
         THEN <<<< >>, <<"BUYING_POWER">>>>
         ELSE <<<<"BUYING_POWER">>, << >>>>
    ELSE <<<< >>, << >>>>

\* check 6: SELL only
SellableQtyCheck(in) ==
    IF in.side = "SELL"
    THEN IF in.quantity > in.sellable_qty - in.pending_sell_qty
         THEN <<<< >>, <<"SELLABLE_QTY">>>>
         ELSE <<<<"SELLABLE_QTY">>, << >>>>
    ELSE <<<< >>, << >>>>

\* checks 2-6 in order, each run whatever the earlier ones found, then the verdict
RunChecks(in, passed, failed) ==
    LET c2 == PriceBandCheck(in)
        c3 == LotSizeCheck(in)
        c4 == PositionSizeCheck(in)
        c5 == BuyingPowerCheck(in)
        c6 == SellableQtyCheck(in)
        p == passed \o c2[1] \o c3[1] \o c4[1] \o c5[1] \o c6[1]
        f == failed \o c2[2] \o c3[2] \o c4[2] \o c5[2] \o c6[2]
    IN  IF f # << >>
        THEN RiskCheckResult(FALSE, "failed checks joined", p, f)
        ELSE RiskCheckResult(TRUE, "All checks passed", p, f)

\* a slip: the kill switch is recorded but the function does not return there
validate_order_no_halt(in) ==
    IF in.kill_switch_active
    THEN RunChecks(in, << >>, <<"KILL_SWITCH">>)
    ELSE RunChecks(in, <<"KILL_SWITCH">>, << >>)

\* validate_order
validate_order(in) ==
    IF in.kill_switch_active
    THEN RiskCheckResult(FALSE, "Kill switch active", << >>, <<"KILL_SWITCH">>)
    ELSE RunChecks(in, <<"KILL_SWITCH">>, << >>)

InitRisk ==
    /\ rcInput \in RiskInputs
    /\ rcResult = NoResult

\* validate_order is applied to the input
ValidateOrder ==
    /\ rcResult = NoResult
    /\ rcResult' = validate_order(rcInput)
    /\ UNCHANGED rcInput
    /\ UNCHANGED notRisk

NextRisk == ValidateOrder

----------------------------------------------------------------------------
(* core.use_cases.price_band: calculate_price_band                         *)

Exchange == {"HOSE", "HNX", "UPCOM"}

\* _PRICE_BAND_PCT, in percent
PRICE_BAND_PCT(exchange) ==
    CASE exchange = "HOSE" -> 7
      [] exchange = "HNX" -> 10
      [] exchange = "UPCOM" -> 15

\* the reference prices calculate_price_band is applied to, in VND
RefPrices ==
    {5 * u : u \in 1..MaxRefSteps}
        \cup {890, 1000, 9990, 10000, 25500, 49950, 50000, 100000}

\* _get_tick_size: fixed 100 outside HOSE, by price level on HOSE
get_tick_size(exchange, price) ==
    IF exchange # "HOSE" THEN 100
    ELSE IF price < 10000 THEN 10
    ELSE IF price < 50000 THEN 50
    ELSE 100

\* _snap_down: (value / tick) truncated, times tick; value is num / den
snap_down(num, den, tick) == (num \div (den * tick)) * tick

\* _snap_up: (value / tick) rounded up, times tick; value is num / den
snap_up(num, den, tick) == ((num + den * tick - 1) \div (den * tick)) * tick

\* calculate_price_band
calculate_price_band(exchange, reference_price) ==
    LET band_pct == PRICE_BAND_PCT(exchange)
        tick == get_tick_size(exchange, reference_price)
    IN  [reference_price |-> reference_price,
         ceiling_price |-> snap_down(reference_price * (100 + band_pct), 100, tick),
         floor_price |-> snap_up(reference_price * (100 - band_pct), 100, tick),
         tick_size |-> tick]

NoPriceBand ==
    [reference_price |-> 0, ceiling_price |-> 0, floor_price |-> 0, tick_size |-> 0]

InitPB ==
    /\ pbExchange \in Exchange
    /\ pbReference \in RefPrices
    /\ pbBand = NoPriceBand

\* calculate_price_band is applied to the input
CalculatePriceBand ==
    /\ pbBand = NoPriceBand
    /\ pbBand' = calculate_price_band(pbExchange, pbReference)
    /\ UNCHANGED <<pbExchange, pbReference>>
    /\ UNCHANGED notPB

NextPB == CalculatePriceBand

----------------------------------------------------------------------------
(* core.use_cases.settlement                                               *)

\* dates are day numbers counted from 2026-01-01 (day 0, a Thursday)

\* date.weekday(): Monday is 0
weekday(d) == (d + 3) % 7

\* _VN_HOLIDAYS_2026 as day numbers: Jan 1, Jan 26-30, Apr 30, May 1, Sep 2
VN_HOLIDAYS_2026 == {0, 25, 26, 27, 28, 29, 119, 120, 244}

\* a slip: holidays are not looked up
is_weekday_only(d) == weekday(d) < 5

\* is_trading_day
is_trading_day(d) == weekday(d) < 5 /\ d \notin VN_HOLIDAYS_2026

RECURSIVE first_trading_day_from(_)
\* the while loop of next_trading_day, from the candidate on
first_trading_day_from(candidate) ==
    IF is_trading_day(candidate) THEN candidate
    ELSE first_trading_day_from(candidate + 1)

\* next_trading_day
next_trading_day(d) == first_trading_day_from(d + 1)

\* calculate_settlement_date(trade_date).settlement_date
calculate_settlement_date(trade_date) == next_trading_day(next_trading_day(trade_date))

\* can_sell_now
can_sell_now(buy_date, current_date, current_hour) ==
    LET settlement == calculate_settlement_date(buy_date)
    IN  IF current_date > settlement THEN TRUE
        ELSE IF current_date = settlement THEN current_hour >= 13
        ELSE FALSE

Hours == {0, 12, 13, 14, 23}

InitST ==
    /\ stBuyDate \in 0..MaxDay
    /\ stCurrentDate \in 0..(MaxDay + 10)
    /\ stHour \in Hours
    /\ stResult = << >>

\* can_sell_now is applied to the input
CanSellNow ==
    /\ stResult = << >>
    /\ stResult' = <<can_sell_now(stBuyDate, stCurrentDate, stHour)>>
    /\ UNCHANGED <<stBuyDate, stCurrentDate, stHour>>
    /\ UNCHANGED notST

NextST == CanSellNow

----------------------------------------------------------------------------
(* agents.supervisor: the trading pipeline and its agents                  *)

Symbols == {"FPT", "VNM"}
Scores == {-6, 0, 6}                 \* composite_score values explored
RiskLevels == {"high", "critical"}   \* EarlyWarningResult.risk_level values explored
BLOCKED_RISK_LEVELS == {"critical"}
SCORE_THRESHOLD == 5
MAX_CANDIDATES == 10
DEFAULT_LATEST_PRICE == 100000
NoEntry == [symbol |-> "none"]
RunId == "run-1"                     \* the uuid4 of the run

\* the sequences over S of length at most n
SeqsUpTo(S, n) == UNION {[1..k -> S] : k \in 0..n}

\* the elements of a sequence
Elements(seq) == {seq[i] : i \in DOMAIN seq}

\* {x.symbol: x for x in list}.get(symbol): a later entry replaces an earlier one
by_symbol(list, symbol) ==
    LET idx == {i \in DOMAIN list : list[i].symbol = symbol}
    IN  IF idx = {} THEN NoEntry
        ELSE list[CHOOSE i \in idx : \A j \in idx : j <= i]

\* the initial_state handed to the compiled graph; absent keys read as empty
InitialState(dry_run) ==
    [phase |-> "idle", run_id |-> "", dry_run |-> dry_run,
     watchlist |-> << >>, technical_scores |-> << >>, top_candidates |-> << >>,
     early_warning_results |-> << >>, risk_assessments |-> << >>,
     approved_trades |-> << >>, execution_plans |-> << >>]

\* _inject_context
inject_context(state) ==
    [state EXCEPT !.phase = "screening", !.run_id = RunId]

\* _finalize
finalize(state) == [state EXCEPT !.phase = "completed"]

\* ScreenerAgent.run: the watchlist is raw_candidates[:max_candidates]
screener_run(state, raw_candidates) ==
    LET n == IF Len(raw_candidates) < MAX_CANDIDATES THEN Len(raw_candidates)
             ELSE MAX_CANDIDATES
    IN  [state EXCEPT !.phase = "analyzing",
                      !.watchlist = SubSeq(raw_candidates, 1, n)]

\* _score_from_indicators: the action a composite score maps to
recommended_action(score) ==
    IF score >= 5 THEN "BUY" ELSE IF score <= -5 THEN "SELL" ELSE "HOLD"

abs(x) == IF x < 0 THEN -x ELSE x

\* TechnicalAgent.run: score[i] is the composite score of watchlist item i
technical_run(state, score) ==
    LET scores == [i \in DOMAIN state.watchlist |->
                      [symbol |-> state.watchlist[i],
                       composite_score |-> score[i],
                       recommended_action |-> recommended_action(score[i])]]
        top == SelectSeq(scores, LAMBDA t : abs(t.composite_score) >= SCORE_THRESHOLD)
    IN  [state EXCEPT !.phase = "risk_checking",
                      !.technical_scores = scores,
                      !.top_candidates = [i \in DOMAIN top |-> top[i].symbol]]

\* FundamentalAgent.run: ew maps the symbols with financial data to a risk level
fundamental_run(state, ew) == [state EXCEPT !.early_warning_results = ew]

\* RiskAgent._reject
reject(symbol, reason) ==
    [symbol |-> symbol, approved |-> FALSE, latest_price |-> 0, quantity |-> 0,
     rejection_reason |-> reason]

\* the outcome of rules 2-4 for a candidate: rejected by a limit, or approved
\* with a position of zero or one lot
Verdicts == {"position_limit", "concentration_limit", "zero_lots", "one_lot"}

\* a slip: the early-warning rule is left out of the loop
early_warning_ignored(ew, symbol) == FALSE

\* rule 1b: the candidate's early-warning level is a blocked one
early_warning_blocks(ew, symbol) ==
    symbol \in DOMAIN ew /\ ew[symbol] \in BLOCKED_RISK_LEVELS

RECURSIVE risk_loop(_, _, _, _, _, _)
\* the for loop of RiskAgent.run from candidate i on
risk_loop(state, kill_switch_active, verdict, i, assessments, approved) ==
    IF i > Len(state.top_candidates)
    THEN [state EXCEPT !.phase = "executing",
                       !.risk_assessments = assessments,
                       !.approved_trades = approved]
    ELSE
      LET symbol == state.top_candidates[i]
          tech == by_symbol(state.technical_scores, symbol)
          next(a, p) == risk_loop(state, kill_switch_active, verdict, i + 1, a, p)
      IN  IF tech = NoEntry THEN next(assessments, approved)
          ELSE IF kill_switch_active
          THEN next(Append(assessments, reject(symbol, "Kill switch is ACTIVE")),
                    approved)
          ELSE IF early_warning_blocks(state.early_warning_results, symbol)
          THEN next(Append(assessments, reject(symbol, "Early Warning CRITICAL")),
                    approved)
          ELSE IF verdict[i] = "position_limit"
          THEN next(Append(assessments, reject(symbol, "Position size exceeds limit")),
                    approved)
          ELSE IF verdict[i] = "concentration_limit"
          THEN next(Append(assessments,
                           reject(symbol, "Exceeds 30% concentration limit")),
                    approved)
          ELSE next(Append(assessments,
                           [symbol |-> symbol, approved |-> TRUE,
                            latest_price |-> DEFAULT_LATEST_PRICE,
                            quantity |-> IF verdict[i] = "one_lot" THEN 100 ELSE 0,
                            rejection_reason |-> "none"]),
                    Append(approved, symbol))

\* RiskAgent.run
risk_run(state, kill_switch_active, verdict) ==
    risk_loop(state, kill_switch_active, verdict, 1, << >>, << >>)

\* the idempotency key of an order intent
idempotency_key(run_id, symbol, action) == <<run_id, symbol, action>>

BrokerOutcomes == {"returns", "raises"}

RECURSIVE executor_loop(_, _, _, _, _, _)
\* the for loop of ExecutorAgent.run from approved trade i on; the result is the
\* plans and the keys handed to broker.place_order
executor_loop(state, broker, outcome, i, plans, submitted) ==
    IF i > Len(state.approved_trades)
    THEN [execution_plans |-> plans, submitted |-> submitted]
    ELSE
      LET symbol == state.approved_trades[i]
          tech == by_symbol(state.technical_scores, symbol)
          risk == by_symbol(state.risk_assessments, symbol)
          next(p, s) == executor_loop(state, broker, outcome, i + 1, p, s)
      IN  IF tech = NoEntry \/ risk = NoEntry THEN next(plans, submitted)
          ELSE IF tech.recommended_action \in {"HOLD", "SKIP"}
          THEN next(plans, submitted)
          ELSE IF risk.latest_price <= 0 THEN next(plans, submitted)
          ELSE IF risk.quantity <= 0 THEN next(plans, submitted)
          ELSE
            LET key == idempotency_key(state.run_id, symbol, tech.recommended_action)
                plan(executed) == [symbol |-> symbol,
                                   action |-> tech.recommended_action,
                                   executed |-> executed]
            IN  IF state.dry_run THEN next(Append(plans, plan(FALSE)), submitted)
                ELSE IF ~broker THEN next(Append(plans, plan(FALSE)), submitted)
                ELSE next(Append(plans, plan(outcome[i] = "returns")),
                          Append(submitted, key))

\* ExecutorAgent.run
executor_run(state, broker, outcome) ==
    executor_loop(state, broker, outcome, 1, << >>, << >>)

\* a slip: the technical stage always reports signals
route_after_technical_always(state) == "has_signals"

\* _route_after_screener
route_after_screener(state) ==
    IF Len(state.watchlist) > 0 THEN "has_candidates" ELSE "no_candidates"

\* _route_after_technical
route_after_technical(state) ==
    IF Len(state.top_candidates) > 0 THEN "has_signals" ELSE "no_signals"

\* _route_after_risk
route_after_risk(state) ==
    IF Len(state.approved_trades) > 0 THEN "has_approved" ELSE "none_approved"

\* a slip: the executor's edge leads straight to END
edge_executor_to_end(node, state, fundamental) ==
    CASE node = "inject_context" -> "screener"
      [] node = "screener" ->
            IF Len(state.watchlist) > 0 THEN "technical" ELSE "finalize"
      [] node = "technical" ->
            IF Len(state.top_candidates) > 0
            THEN (IF fundamental THEN "fundamental" ELSE "risk")
            ELSE "finalize"
      [] node = "fundamental" -> "risk"
      [] node = "risk" ->
            IF Len(state.approved_trades) > 0 THEN "executor" ELSE "finalize"
      [] node = "executor" -> "END"
      [] node = "finalize" -> "END"

\* build_trading_graph: the node that follows `node` once it has updated the state
next_node(node, state, fundamental) ==
    CASE node = "inject_context" -> "screener"
      [] node = "screener" ->
            IF route_after_screener(state) = "has_candidates" THEN "technical"
            ELSE "finalize"
      [] node = "technical" ->
            IF route_after_technical(state) = "has_signals"
            THEN (IF fundamental THEN "fundamental" ELSE "risk")
            ELSE "finalize"
      [] node = "fundamental" -> "risk"
      [] node = "risk" ->
            IF route_after_risk(state) = "has_approved" THEN "executor"
            ELSE "finalize"
      [] node = "executor" -> "finalize"
      [] node = "finalize" -> "END"

InitPL ==
    /\ plConfig \in [fundamental : BOOLEAN, kill_switch_active : BOOLEAN,
                     broker : BOOLEAN]
    /\ \E dry_run \in BOOLEAN : plState = InitialState(dry_run)
    /\ plNode = "inject_context"
    /\ plTrace = << >>
    /\ plSubmitted = << >>

\* a node has run: the state is updated, the edge out of the node is followed
Ran(node, state) ==
    /\ plState' = state
    /\ plNode' = next_node(node, state, plConfig.fundamental)
    /\ plTrace' = Append(plTrace, node)
    /\ UNCHANGED plConfig
    /\ UNCHANGED notPL

RunInjectContext ==
    /\ plNode = "inject_context"
    /\ Ran("inject_context", inject_context(plState))
    /\ UNCHANGED plSubmitted

RunScreener ==
    /\ plNode = "screener"
    /\ \E raw_candidates \in SeqsUpTo(Symbols, MaxWatch) :
          Ran("screener", screener_run(plState, raw_candidates))
    /\ UNCHANGED plSubmitted

RunTechnical ==
    /\ plNode = "technical"
    /\ \E score \in [DOMAIN plState.watchlist -> Scores] :
          Ran("technical", technical_run(plState, score))
    /\ UNCHANGED plSubmitted

RunFundamental ==
    /\ plNode = "fundamental"
    /\ \E S \in SUBSET Elements(plState.watchlist) :
          \E ew \in [S -> RiskLevels] :
              Ran("fundamental", fundamental_run(plState, ew))
    /\ UNCHANGED plSubmitted

RunRisk ==
    /\ plNode = "risk"
    /\ \E verdict \in [DOMAIN plState.top_candidates -> Verdicts] :
          Ran("risk", risk_run(plState, plConfig.kill_switch_active, verdict))
    /\ UNCHANGED plSubmitted

RunExecutor ==
    /\ plNode = "executor"
    /\ \E outcome \in [DOMAIN plState.approved_trades -> BrokerOutcomes] :
          LET result == executor_run(plState, plConfig.broker, outcome)
          IN  /\ Ran("executor",
                     [plState EXCEPT !.phase = "completed",
                                     !.execution_plans = result.execution_plans])
              /\ plSubmitted' = plSubmitted \o result.submitted

RunFinalize ==
    /\ plNode = "finalize"
    /\ Ran("finalize", finalize(plState))
    /\ UNCHANGED plSubmitted

NextPL ==
    \/ RunInjectContext
    \/ RunScreener
    \/ RunTechnical
    \/ RunFundamental
    \/ RunRisk
    \/ RunExecutor
    \/ RunFinalize

----------------------------------------------------------------------------
(* adapters.ssi.auth: SSIAuthClient.get_access_token                       *)

TOKEN_REFRESH_BUFFER_SECONDS == 300
DEFAULT_EXPIRES_IN == 1800
AuthCallers == 1..MaxAuthCallers
\* the expiresIn values the authentication endpoint answers with
ExpiresIn == {TOKEN_REFRESH_BUFFER_SECONDS, DEFAULT_EXPIRES_IN}

\* TokenState.__init__
NoToken == [access_token |-> 0, expires_at |-> 0]

\* TokenState.is_valid
is_valid(token, t) ==
    token.access_token # 0 /\ t < token.expires_at - TOKEN_REFRESH_BUFFER_SECONDS

\* TokenState.update
update(token, expires_in, t) ==
    [access_token |-> token, expires_at |-> t + expires_in]

IdleAuthCall == [pc |-> "idle", result |-> 0, requests |-> 0, served_by |-> 0]

InitAuth ==
    /\ authToken = NoToken
    /\ authNow = 0
    /\ authLock = 0
    /\ authWaiters = << >>
    /\ authCalls = [c \in AuthCallers |-> IdleAuthCall]
    /\ authRequests = 0

\* the caller holds the lock: the second is_valid check, then _authenticate up
\* to its await of the POST
locked_section(call) ==
    IF is_valid(authToken, authNow)
    THEN [call EXCEPT !.pc = "returned", !.result = authToken.access_token]
    ELSE [call EXCEPT !.pc = "authenticating", !.requests = @ + 1]

\* _refresh_lock is released: the first waiter, if any, is handed the lock
release ==
    /\ authLock' = IF authWaiters = << >> THEN 0 ELSE Head(authWaiters)
    /\ authWaiters' = IF authWaiters = << >> THEN << >> ELSE Tail(authWaiters)

\* get_access_token finds a valid token on entry
GetTokenCached(c) ==
    /\ authCalls[c].pc = "idle"
    /\ is_valid(authToken, authNow)
    /\ authCalls' = [authCalls EXCEPT ![c].pc = "returned",
                                      ![c].result = authToken.access_token]
    /\ UNCHANGED <<authToken, authNow, authLock, authWaiters, authRequests>>
    /\ UNCHANGED notAuth

\* get_access_token finds no valid token and the lock free: it sends the request
GetTokenRefresh(c) ==
    /\ authCalls[c].pc = "idle"
    /\ ~is_valid(authToken, authNow)
    /\ authLock = 0 /\ authWaiters = << >>
    /\ authLock' = c
    /\ authCalls' = [authCalls EXCEPT ![c] = locked_section(@)]
    /\ authRequests' = authRequests + 1
    /\ UNCHANGED <<authToken, authNow, authWaiters>>
    /\ UNCHANGED notAuth

\* get_access_token finds no valid token and the lock taken: it waits
GetTokenWaits(c) ==
    /\ authCalls[c].pc = "idle"
    /\ ~is_valid(authToken, authNow)
    /\ authLock # 0
    /\ authWaiters' = Append(authWaiters, c)
    /\ authCalls' = [authCalls EXCEPT ![c].pc = "waiting"]
    /\ UNCHANGED <<authToken, authNow, authLock, authRequests>>
    /\ UNCHANGED notAuth

\* a waiter that was handed the lock resumes with a valid token cached
WaiterReturnsCached(c) ==
    /\ authCalls[c].pc = "waiting"
    /\ authLock = c
    /\ is_valid(authToken, authNow)
    /\ authCalls' = [authCalls EXCEPT ![c] = locked_section(@)]
    /\ release
    /\ UNCHANGED <<authToken, authNow, authRequests>>
    /\ UNCHANGED notAuth

\* a waiter that was handed the lock resumes with no valid token cached
WaiterRefreshes(c) ==
    /\ authCalls[c].pc = "waiting"
    /\ authLock = c
    /\ ~is_valid(authToken, authNow)
    /\ authCalls' = [authCalls EXCEPT ![c] = locked_section(@)]
    /\ authRequests' = authRequests + 1
    /\ UNCHANGED <<authToken, authNow, authLock, authWaiters>>
    /\ UNCHANGED notAuth

\* the POST answers 200 with a token: the token is stored and returned
AuthSucceeds(c, expires_in) ==
    /\ authCalls[c].pc = "authenticating"
    /\ authToken' = update(authRequests, expires_in, authNow)
    /\ authCalls' =
          [x \in AuthCallers |->
              IF x = c
              THEN [authCalls[x] EXCEPT !.pc = "returned", !.result = authRequests]
              ELSE IF authCalls[x].pc = "waiting"
              THEN [authCalls[x] EXCEPT !.served_by = authRequests]
              ELSE authCalls[x]]
    /\ release
    /\ UNCHANGED <<authNow, authRequests>>
    /\ UNCHANGED notAuth

\* the POST fails or is rejected: AuthenticationError leaves the token as it was
AuthFails(c) ==
    /\ authCalls[c].pc = "authenticating"
    /\ authCalls' = [authCalls EXCEPT ![c].pc = "raised"]
    /\ release
    /\ UNCHANGED <<authToken, authNow, authRequests>>
    /\ UNCHANGED notAuth

\* time.monotonic() advances while a request is in flight or nobody holds the lock
AuthTick ==
    /\ authNow < MaxAuthTicks * TOKEN_REFRESH_BUFFER_SECONDS
    /\ \/ \E c \in AuthCallers : authCalls[c].pc = "authenticating"
       \/ authLock = 0
    /\ authNow' = authNow + TOKEN_REFRESH_BUFFER_SECONDS
    /\ UNCHANGED <<authToken, authLock, authWaiters, authCalls, authRequests>>
    /\ UNCHANGED notAuth

NextAuth ==
    \/ \E c \in AuthCallers : GetTokenCached(c)
    \/ \E c \in AuthCallers : GetTokenRefresh(c)
    \/ \E c \in AuthCallers : GetTokenWaits(c)
    \/ \E c \in AuthCallers : WaiterReturnsCached(c)
    \/ \E c \in AuthCallers : WaiterRefreshes(c)
    \/ \E c \in AuthCallers, expires_in \in ExpiresIn : AuthSucceeds(c, expires_in)
    \/ \E c \in AuthCallers : AuthFails(c)
    \/ AuthTick

-----------------------------------------------------------------------------
(* interface.app lifespan shutdown, interface.ws.manager, duckdb pool      *)

GOING_AWAY == 1001
Sockets == 1..MaxSockets
PoolConns == 1..MaxPoolConns
\* the two ConnectionManager instances of the application: the one the
\* /ws/market endpoint registers with, and the singleton lifespan closes
Managers == {"manager", "ws_manager"}

\* a client socket: the endpoint's position, who closed it, and the close code
NewSocket == [pc |-> "new", closed_by |-> "none", code |-> 0]

\* ConnectionManager.close_all: the set is copied and cleared, then every socket
\* of the copy is closed with code 1001
close_all(conns, socks) ==
    [connections |-> {},
     sockets |-> [ws \in Sockets |->
                    IF ws \in conns /\ socks[ws].closed_by = "none"
                    THEN [pc |-> "done", closed_by |-> "server", code |-> GOING_AWAY]
                    ELSE socks[ws]]]

InitSH ==
    /\ shPc = "serving"
    /\ shHasPool \in BOOLEAN
    /\ poolShutdown = FALSE
    /\ poolConns = {}
    /\ connections = [m \in Managers |-> {}]
    /\ sockets = [ws \in Sockets |-> NewSocket]
    /\ shLog = << >>

\* market_websocket -> manager.connect: websocket.accept() returns
WsAccept(ws) ==
    /\ shPc = "serving"
    /\ sockets[ws].pc = "new"
    /\ sockets' = [sockets EXCEPT ![ws].pc = "accepted"]
    /\ UNCHANGED <<shPc, shHasPool, poolShutdown, poolConns, connections, shLog>>
    /\ UNCHANGED notSH

\* manager.connect adds the socket under the lock; the endpoint then waits in
\* receive_text
WsRegister(ws) ==
    /\ sockets[ws].pc = "accepted"
    /\ connections' = [connections EXCEPT !["manager"] = @ \cup {ws}]
    /\ sockets' = [sockets EXCEPT ![ws].pc = "receiving"]
    /\ UNCHANGED <<shPc, shHasPool, poolShutdown, poolConns, shLog>>
    /\ UNCHANGED notSH

\* the client goes away: receive_text raises WebSocketDisconnect and the endpoint
\* calls manager.disconnect
WsDisconnect(ws) ==
    /\ sockets[ws].pc = "receiving"
    /\ sockets[ws].closed_by = "none"
    /\ connections' = [connections EXCEPT !["manager"] = @ \ {ws}]
    /\ sockets' = [sockets EXCEPT ![ws] = [pc |-> "done", closed_by |-> "client",
                                          code |-> 0]]
    /\ UNCHANGED <<shPc, shHasPool, poolShutdown, poolConns, shLog>>
    /\ UNCHANGED notSH

\* DuckDBConnectionPool.acquire in a thread without a connection
PoolAcquire(conn) ==
    /\ shHasPool
    /\ ~poolShutdown
    /\ conn \notin poolConns
    /\ poolConns' = poolConns \cup {conn}
    /\ UNCHANGED <<shPc, shHasPool, poolShutdown, connections, sockets, shLog>>
    /\ UNCHANGED notSH

\* _close_thread_connection, after a query raised inside acquire()
PoolCloseThreadConnection(conn) ==
    /\ conn \in poolConns
    /\ poolConns' = poolConns \ {conn}
    /\ UNCHANGED <<shPc, shHasPool, poolShutdown, connections, sockets, shLog>>
    /\ UNCHANGED notSH

\* lifespan, after the yield, with a pool: pool.shutdown() sets the flag and sleeps
LifespanShutdownPool ==
    /\ shPc = "serving"
    /\ shHasPool
    /\ poolShutdown' = TRUE
    /\ shPc' = "pool_sleep"
    /\ UNCHANGED <<shHasPool, poolConns, connections, sockets, shLog>>
    /\ UNCHANGED notSH

\* pool.shutdown() closes every connection and returns; lifespan then calls
\* ws_manager.close_all() and completes
PoolShutdownDone ==
    /\ shPc = "pool_sleep"
    /\ poolConns' = {}
    /\ LET closed == close_all(connections["ws_manager"], sockets) IN
        /\ connections' = [connections EXCEPT !["ws_manager"] = closed.connections]
        /\ sockets' = closed.sockets
    /\ shLog' = shLog \o <<"close_pool", "close_websockets">>
    /\ shPc' = "done"
    /\ UNCHANGED <<shHasPool, poolShutdown>>
    /\ UNCHANGED notSH

\* lifespan, after the yield, without a pool: only ws_manager.close_all() runs
LifespanShutdownNoPool ==
    /\ shPc = "serving"
    /\ ~shHasPool
    /\ LET closed == close_all(connections["ws_manager"], sockets) IN
        /\ connections' = [connections EXCEPT !["ws_manager"] = closed.connections]
        /\ sockets' = closed.sockets
    /\ shLog' = Append(shLog, "close_websockets")
    /\ shPc' = "done"
    /\ UNCHANGED <<shHasPool, poolShutdown, poolConns>>
    /\ UNCHANGED notSH

NextSH ==
    \/ \E ws \in Sockets : WsAccept(ws)
    \/ \E ws \in Sockets : WsRegister(ws)
    \/ \E ws \in Sockets : WsDisconnect(ws)
    \/ \E conn \in PoolConns : PoolAcquire(conn)
    \/ \E conn \in PoolConns : PoolCloseThreadConnection(conn)
    \/ LifespanShutdownPool
    \/ PoolShutdownDone
    \/ LifespanShutdownNoPool

-----------------------------------------------------------------------------
(* interface.ws.manager: ConnectionManager.broadcast_json                  *)

\* a slip: the failed sockets are collected but never discarded
discard_none(conns, disconnected) == conns

\* "for ws in disconnected: self._connections.discard(ws)"
discard_each(conns, disconnected) == conns \ disconnected

InitBC ==
    /\ bcConnections = {}
    /\ bcLock = "free"
    /\ bcSock = [ws \in Sockets |-> "new"]
    /\ bcPc = "idle"
    /\ bcSnapshot = {}
    /\ bcTodo = {}
    /\ bcDisconnected = {}
    /\ bcSent = {}
    /\ bcAdded = {}

\* connect: websocket.accept() returns
BcAccept(ws) ==
    /\ bcSock[ws] = "new"
    /\ bcSock' = [bcSock EXCEPT ![ws] = "accepted"]
    /\ UNCHANGED <<bcConnections, bcLock, bcPc, bcSnapshot, bcTodo, bcDisconnected,
                   bcSent, bcAdded>>
    /\ UNCHANGED notBC

\* connect: the socket is added under the lock
BcConnect(ws) ==
    /\ bcSock[ws] = "accepted"
    /\ bcLock = "free"
    /\ bcConnections' = bcConnections \cup {ws}
    /\ bcSock' = [bcSock EXCEPT ![ws] = "connected"]
    /\ bcAdded' = IF bcPc \in {"snapshot", "sending"} THEN bcAdded \cup {ws} ELSE bcAdded
    /\ UNCHANGED <<bcLock, bcPc, bcSnapshot, bcTodo, bcDisconnected, bcSent>>
    /\ UNCHANGED notBC

\* disconnect: the endpoint saw the client leave; the socket is discarded under
\* the lock
BcDisconnect(ws) ==
    /\ bcSock[ws] = "connected"
    /\ bcLock = "free"
    /\ bcConnections' = bcConnections \ {ws}
    /\ bcSock' = [bcSock EXCEPT ![ws] = "left"]
    /\ UNCHANGED <<bcLock, bcPc, bcSnapshot, bcTodo, bcDisconnected, bcSent, bcAdded>>
    /\ UNCHANGED notBC

\* broadcast_json is called: it enters "async with self._lock"
BroadcastLock ==
    /\ bcPc \in {"idle", "returned"}
    /\ bcLock = "free"
    /\ bcLock' = "broadcast_json"
    /\ bcPc' = "snapshot"
    /\ bcSnapshot' = {}
    /\ bcTodo' = {}
    /\ bcDisconnected' = {}
    /\ bcSent' = {}
    /\ bcAdded' = {}
    /\ UNCHANGED <<bcConnections, bcSock>>
    /\ UNCHANGED notBC

\* snapshot = set(self._connections), then the lock is released; with an empty
\* snapshot the function returns at once
BroadcastSnapshot ==
    /\ bcPc = "snapshot"
    /\ bcSnapshot' = bcConnections
    /\ bcTodo' = bcConnections
    /\ bcLock' = "free"
    /\ bcPc' = IF bcConnections = {} THEN "returned" ELSE "sending"
    /\ UNCHANGED <<bcConnections, bcSock, bcDisconnected, bcSent, bcAdded>>
    /\ UNCHANGED notBC

\* after a send: the loop goes on, or it is over and a non-empty disconnected list
\* is discarded under the lock (which nothing holds across an await), and
\* broadcast_json returns
after_loop(todo, disconnected) ==
    IF todo # {} THEN [pc |-> "sending", connections |-> bcConnections]
    ELSE [pc |-> "returned", connections |-> discard_each(bcConnections, disconnected)]

\* "await ws.send_json(data)" returns for the next socket of the snapshot
BroadcastSendOk(ws) ==
    /\ bcPc = "sending"
    /\ ws \in bcTodo
    /\ bcTodo' = bcTodo \ {ws}
    /\ bcSent' = bcSent \cup {ws}
    /\ LET next == after_loop(bcTodo \ {ws}, bcDisconnected) IN
        /\ bcPc' = next.pc
        /\ bcConnections' = next.connections
    /\ UNCHANGED <<bcLock, bcSock, bcSnapshot, bcDisconnected, bcAdded>>
    /\ UNCHANGED notBC

\* "await ws.send_json(data)" raises: the socket joins the disconnected list
BroadcastSendFails(ws) ==
    /\ bcPc = "sending"
    /\ ws \in bcTodo
    /\ bcTodo' = bcTodo \ {ws}
    /\ bcDisconnected' = bcDisconnected \cup {ws}
    /\ LET next == after_loop(bcTodo \ {ws}, bcDisconnected \cup {ws}) IN
        /\ bcPc' = next.pc
        /\ bcConnections' = next.connections
    /\ UNCHANGED <<bcLock, bcSock, bcSnapshot, bcSent, bcAdded>>
    /\ UNCHANGED notBC

NextBC ==
    \/ \E ws \in Sockets : BcAccept(ws)
    \/ \E ws \in Sockets : BcConnect(ws)
    \/ \E ws \in Sockets : BcDisconnect(ws)
    \/ BroadcastLock
    \/ BroadcastSnapshot
    \/ \E ws \in Sockets : BroadcastSendOk(ws)
    \/ \E ws \in Sockets : BroadcastSendFails(ws)

-----------------------------------------------------------------------------
(* adapters.ssi.broker: SSIBrokerClient calls through breaker and retry    *)

BROKER_FAILURE_THRESHOLD == 5
BROKER_RECOVERY_TIMEOUT == 30
BROKER_MAX_RETRIES == 3
BrCallers == 1..MaxBrCallers
\* retryable_exceptions of _RETRY_CONFIG
BROKER_RETRYABLE == {"ConnectionError", "TimeoutError", "TransportError"}

\* a call of the adapter that has not started
IdleBrCall == [pc |-> "idle", attempt |-> 0]

NoHttp == [call |-> 0, breaker |-> "none"]
NoBrStep == [kind |-> "none", call |-> 0, before |-> 0, after |-> 0]

\* SSIBrokerClient.__init__: a CLOSED breaker with threshold 5 and timeout 30 s
InitBR ==
    /\ brBreaker = [state |-> "closed", failure_count |-> 0,
                    last_failure_time |-> 0, success_count |-> 0]
    /\ brNow = 0
    /\ brCalls = [c \in BrCallers |-> IdleBrCall]
    /\ brStarted = 0
    /\ brHttp = NoHttp
    /\ brLast = NoBrStep

\* place_order (or another adapter method) while the breaker is OPEN before the
\* recovery timeout: CircuitOpenError, the implementation is not entered
BrCallRejected(c) ==
    /\ brCalls[c].pc = "idle"
    /\ brStarted < MaxBrCalls
    /\ brBreaker.state = "open"
    /\ ~recovery_elapsed(brNow, brBreaker.last_failure_time, BROKER_RECOVERY_TIMEOUT)
    /\ brStarted' = brStarted + 1
    /\ brLast' = [kind |-> "rejected", call |-> c,
                  before |-> brBreaker.failure_count, after |-> brBreaker.failure_count]
    /\ UNCHANGED <<brBreaker, brNow, brCalls, brHttp>>
    /\ UNCHANGED notBR

\* the breaker admits the call (OPEN past the timeout becomes HALF_OPEN) and the
\* implementation awaits get_access_token
BrCallAdmitted(c) ==
    /\ brCalls[c].pc = "idle"
    /\ brStarted < MaxBrCalls
    /\ \/ brBreaker.state # "open"
       \/ recovery_elapsed(brNow, brBreaker.last_failure_time, BROKER_RECOVERY_TIMEOUT)
    /\ brBreaker' = [brBreaker EXCEPT !.state = IF @ = "open" THEN "half_open" ELSE @]
    /\ brCalls' = [brCalls EXCEPT ![c] = [pc |-> "token", attempt |-> 0]]
    /\ brStarted' = brStarted + 1
    /\ brLast' = [kind |-> "admitted", call |-> c,
                  before |-> brBreaker.failure_count, after |-> brBreaker.failure_count]
    /\ UNCHANGED <<brNow, brHttp>>
    /\ UNCHANGED notBR

\* the exception leaves circuit.call: _on_failure, and the call is over
BrFail(c, kind) ==
    LET cb == on_failure(brBreaker, brNow, BROKER_FAILURE_THRESHOLD) IN
    /\ brBreaker' = cb
    /\ brCalls' = [brCalls EXCEPT ![c] = IdleBrCall]
    /\ brLast' = [kind |-> kind, call |-> c,
                  before |-> brBreaker.failure_count, after |-> cb.failure_count]

\* get_access_token returns: retry_async makes its first attempt
BrTokenReturns(c) ==
    /\ brCalls[c].pc = "token"
    /\ brCalls' = [brCalls EXCEPT ![c].pc = "attempt"]
    /\ UNCHANGED <<brBreaker, brNow, brStarted, brHttp, brLast>>
    /\ UNCHANGED notBR

\* get_access_token raises
BrTokenFails(c) ==
    /\ brCalls[c].pc = "token"
    /\ BrFail(c, "auth_error")
    /\ UNCHANGED <<brNow, brStarted, brHttp>>
    /\ UNCHANGED notBR

\* _call: the HTTP request is sent
BrHttpSend(c) ==
    /\ brCalls[c].pc = "attempt"
    /\ brHttp' = [call |-> c, breaker |-> brBreaker.state]
    /\ brCalls' = [brCalls EXCEPT ![c].pc = "awaiting"]
    /\ UNCHANGED <<brBreaker, brNow, brStarted, brLast>>
    /\ UNCHANGED notBR

\* the response has status 200 in its body: _on_success, the order is returned
BrHttpOk(c) ==
    /\ brCalls[c].pc = "awaiting"
    /\ brBreaker' = on_success(brBreaker)
    /\ brCalls' = [brCalls EXCEPT ![c] = IdleBrCall]
    /\ brLast' = [kind |-> "success", call |-> c,
                  before |-> brBreaker.failure_count, after |-> 0]
    /\ UNCHANGED <<brNow, brStarted, brHttp>>
    /\ UNCHANGED notBR

\* an error that is not retried: raise_for_status raises HTTPStatusError, or the
\* body carries another status and SSIBrokerError is raised
BrHttpError(c) ==
    /\ brCalls[c].pc = "awaiting"
    /\ BrFail(c, "error")
    /\ UNCHANGED <<brNow, brStarted, brHttp>>
    /\ UNCHANGED notBR

\* the request raises a retryable exception before the last attempt: backoff
BrHttpRetryable(c, exc) ==
    /\ brCalls[c].pc = "awaiting"
    /\ is_retryable(exc, BROKER_RETRYABLE)
    /\ ~(brCalls[c].attempt >= BROKER_MAX_RETRIES)
    /\ brCalls' = [brCalls EXCEPT ![c].pc = "backoff"]
    /\ UNCHANGED <<brBreaker, brNow, brStarted, brHttp, brLast>>
    /\ UNCHANGED notBR

\* the request raises a retryable exception on the last attempt: retry_async
\* re-raises it
BrHttpExhausted(c, exc) ==
    /\ brCalls[c].pc = "awaiting"
    /\ is_retryable(exc, BROKER_RETRYABLE)
    /\ brCalls[c].attempt >= BROKER_MAX_RETRIES
    /\ BrFail(c, "exhausted")
    /\ UNCHANGED <<brNow, brStarted, brHttp>>
    /\ UNCHANGED notBR

\* the backoff sleep is over: the next attempt
BrBackoffDone(c) ==
    /\ brCalls[c].pc = "backoff"
    /\ brCalls' = [brCalls EXCEPT ![c] = [pc |-> "attempt", attempt |-> @.attempt + 1]]
    /\ UNCHANGED <<brBreaker, brNow, brStarted, brHttp, brLast>>
    /\ UNCHANGED notBR

\* the monotonic clock advances
BrTick ==
    /\ brNow < MaxBrTicks * BrTickSeconds
    /\ brNow' = brNow + BrTickSeconds
    /\ UNCHANGED <<brBreaker, brCalls, brStarted, brHttp, brLast>>
    /\ UNCHANGED notBR

NextBR ==
    \/ \E c \in BrCallers : BrCallRejected(c)
    \/ \E c \in BrCallers : BrCallAdmitted(c)
    \/ \E c \in BrCallers : BrTokenReturns(c)
    \/ \E c \in BrCallers : BrTokenFails(c)
    \/ \E c \in BrCallers : BrHttpSend(c)
    \/ \E c \in BrCallers : BrHttpOk(c)
    \/ \E c \in BrCallers : BrHttpError(c)
    \/ \E c \in BrCallers : BrHttpRetryable(c, "TransportError")
    \/ \E c \in BrCallers : BrHttpExhausted(c, "TransportError")
    \/ \E c \in BrCallers : BrBackoffDone(c)
    \/ BrTick

-----------------------------------------------------------------------------
(* adapters.duckdb.connection: DuckDBConnectionPool with worker threads    *)

PoolThreads == 1..MaxPoolThreads
PoolHandles == 1..MaxPoolHandles

\* DuckDBConnectionPool.__init__: no connection, the semaphore at max_connections
InitDP ==
    /\ dpMax \in 1..MaxPoolThreads
    /\ dpSemaphore = dpMax
    /\ dpShutdown = FALSE
    /\ dpAll = {}
    /\ dpOpen = {}
    /\ dpOpened = 0
    /\ dpLocal = [t \in PoolThreads |-> 0]
    /\ dpPc = [t \in PoolThreads |-> "idle"]
    /\ dpShPc = "init"
    /\ dpSnapshot = {}

\* acquire() reads _shutdown as False; a thread with a connection of its own
\* goes on to the body, another one goes to the semaphore
AcquireEnter(t) ==
    /\ dpPc[t] = "idle"
    /\ ~dpShutdown
    /\ dpPc' = [dpPc EXCEPT ![t] = IF dpLocal[t] # 0 THEN "body" ELSE "semaphore"]
    /\ UNCHANGED <<dpMax, dpSemaphore, dpShutdown, dpAll, dpOpen, dpOpened, dpLocal,
                   dpShPc, dpSnapshot>>
    /\ UNCHANGED notDP

\* acquire() reads _shutdown as True: RuntimeError
AcquireRejected(t) ==
    /\ dpPc[t] = "idle"
    /\ dpShutdown
    /\ dpPc' = [dpPc EXCEPT ![t] = "rejected"]
    /\ UNCHANGED <<dpMax, dpSemaphore, dpShutdown, dpAll, dpOpen, dpOpened, dpLocal,
                   dpShPc, dpSnapshot>>
    /\ UNCHANGED notDP

\* _semaphore.acquire() returns
AcquireSemaphore(t) ==
    /\ dpPc[t] = "semaphore"
    /\ dpSemaphore > 0
    /\ dpSemaphore' = dpSemaphore - 1
    /\ dpPc' = [dpPc EXCEPT ![t] = "connect"]
    /\ UNCHANGED <<dpMax, dpShutdown, dpAll, dpOpen, dpOpened, dpLocal, dpShPc,
                   dpSnapshot>>
    /\ UNCHANGED notDP

\* duckdb.connect returns a new handle, which becomes the thread's connection
AcquireConnect(t) ==
    /\ dpPc[t] = "connect"
    /\ dpOpened < MaxPoolHandles
    /\ dpOpened' = dpOpened + 1
    /\ dpOpen' = dpOpen \cup {dpOpened + 1}
    /\ dpLocal' = [dpLocal EXCEPT ![t] = dpOpened + 1]
    /\ dpPc' = [dpPc EXCEPT ![t] = "append"]
    /\ UNCHANGED <<dpMax, dpSemaphore, dpShutdown, dpAll, dpShPc, dpSnapshot>>
    /\ UNCHANGED notDP

\* duckdb.connect raises: the semaphore is released and the exception leaves
AcquireConnectFails(t) ==
    /\ dpPc[t] = "connect"
    /\ dpSemaphore' = dpSemaphore + 1
    /\ dpPc' = [dpPc EXCEPT ![t] = "idle"]
    /\ UNCHANGED <<dpMax, dpShutdown, dpAll, dpOpen, dpOpened, dpLocal, dpShPc,
                   dpSnapshot>>
    /\ UNCHANGED notDP

\* with self._lock: _all_connections.append(conn); then the body runs
AcquireAppend(t) ==
    /\ dpPc[t] = "append"
    /\ dpAll' = dpAll \cup {dpLocal[t]}
    /\ dpPc' = [dpPc EXCEPT ![t] = "body"]
    /\ UNCHANGED <<dpMax, dpSemaphore, dpShutdown, dpOpen, dpOpened, dpLocal, dpShPc,
                   dpSnapshot>>
    /\ UNCHANGED notDP

\* the body of the with statement ends normally: the thread keeps its connection
BodyReturns(t) ==
    /\ dpPc[t] = "body"
    /\ dpPc' = [dpPc EXCEPT ![t] = "idle"]
    /\ UNCHANGED <<dpMax, dpSemaphore, dpShutdown, dpAll, dpOpen, dpOpened, dpLocal,
                   dpShPc, dpSnapshot>>
    /\ UNCHANGED notDP

\* the body raises: _close_thread_connection closes the thread's connection,
\* removes it from the list and releases the semaphore
BodyRaises(t) ==
    /\ dpPc[t] = "body"
    /\ dpOpen' = dpOpen \ {dpLocal[t]}
    /\ dpAll' = dpAll \ {dpLocal[t]}
    /\ dpLocal' = [dpLocal EXCEPT ![t] = 0]
    /\ dpSemaphore' = dpSemaphore + 1
    /\ dpPc' = [dpPc EXCEPT ![t] = "idle"]
    /\ UNCHANGED <<dpMax, dpShutdown, dpOpened, dpShPc, dpSnapshot>>
    /\ UNCHANGED notDP

\* shutdown(): _shutdown = True, then the sleep of 0.1 s
ShutdownBegin ==
    /\ dpShPc = "init"
    /\ dpShutdown' = TRUE
    /\ dpShPc' = "sleep"
    /\ UNCHANGED <<dpMax, dpSemaphore, dpAll, dpOpen, dpOpened, dpLocal, dpPc,
                   dpSnapshot>>
    /\ UNCHANGED notDP

\* the sleep is over: with self._lock: connections = list(_all_connections)
ShutdownSnapshot ==
    /\ dpShPc = "sleep"
    /\ dpSnapshot' = dpAll
    /\ dpShPc' = "closing"
    /\ UNCHANGED <<dpMax, dpSemaphore, dpShutdown, dpAll, dpOpen, dpOpened, dpLocal,
                   dpPc>>
    /\ UNCHANGED notDP

\* the for loop closes every connection of the snapshot
ShutdownCloseAll ==
    /\ dpShPc = "closing"
    /\ dpOpen' = dpOpen \ dpSnapshot
    /\ dpShPc' = "clear"
    /\ UNCHANGED <<dpMax, dpSemaphore, dpShutdown, dpAll, dpOpened, dpLocal, dpPc,
                   dpSnapshot>>
    /\ UNCHANGED notDP

\* with self._lock: _all_connections.clear(); shutdown() returns
ShutdownClear ==
    /\ dpShPc = "clear"
    /\ dpAll' = {}
    /\ dpShPc' = "done"
    /\ UNCHANGED <<dpMax, dpSemaphore, dpShutdown, dpOpen, dpOpened, dpLocal, dpPc,
                   dpSnapshot>>
    /\ UNCHANGED notDP

NextDP ==
    \/ \E t \in PoolThreads : AcquireEnter(t)
    \/ \E t \in PoolThreads : AcquireRejected(t)
    \/ \E t \in PoolThreads : AcquireSemaphore(t)
    \/ \E t \in PoolThreads : AcquireConnect(t)
    \/ \E t \in PoolThreads : AcquireConnectFails(t)
    \/ \E t \in PoolThreads : AcquireAppend(t)
    \/ \E t \in PoolThreads : BodyReturns(t)
    \/ \E t \in PoolThreads : BodyRaises(t)
    \/ ShutdownBegin
    \/ ShutdownSnapshot
    \/ ShutdownCloseAll
    \/ ShutdownClear

-----------------------------------------------------------------------------
(* interface.middleware.rate_limit: RateLimitMiddleware                    *)

IP_EVICTION_IDLE_SECONDS == 3600
EVICTION_EVERY == 1000
REQUESTS_PER_MINUTE == 60
ORDER_REQUESTS_PER_MINUTE == 10
\* tokens are counted in sixtieths, so that a rate of n per minute adds n units
\* per second
TOKEN == 60

\* request.client.host: an IPv4 address as its octets, << >> for "unknown"
UNKNOWN_HOST == << >>
Hosts == {<<10, 0, 0, 5>>, <<203, 0, 113, 7>>, <<172, 32, 0, 1>>, UNKNOWN_HOST}

\* the X-Forwarded-For header as the list of its comma-separated entries
ForwardedHeaders ==
    {<< >>, <<<<172, 32, 0, 1>>>>, <<<<10, 0, 0, 5>>, <<203, 0, 113, 7>>>>}

PathKinds == {"exempt", "orders", "other"}

\* _TRUSTED_PROXY_NETWORKS: the first two octets of the network and its prefix
\* length
TRUSTED_PROXY_NETWORKS ==
    {[net |-> <<10, 0>>, bits |-> 8], [net |-> <<172, 16>>, bits |-> 12],
     [net |-> <<192, 168>>, bits |-> 16], [net |-> <<127, 0>>, bits |-> 8]}

\* addr in network, for prefixes of at most 16 bits
in_network(addr, network) ==
    LET shift == 2 ^ (16 - network.bits)
    IN  (addr[1] * 256 + addr[2]) \div shift
           = (network.net[1] * 256 + network.net[2]) \div shift

\* _is_trusted_proxy: a host that does not parse as an address is not trusted
is_trusted_proxy(host) ==
    IF host = UNKNOWN_HOST THEN FALSE
    ELSE \E network \in TRUSTED_PROXY_NETWORKS : in_network(host, network)

\* a slip: the first entry of the header is used whoever sent the request
first_forwarded(direct_host, forwarded) ==
    IF forwarded # << >> THEN forwarded[1] ELSE direct_host

\* _get_client_ip
get_client_ip(direct_host, forwarded) ==
    IF is_trusted_proxy(direct_host) /\ forwarded # << >>
    THEN forwarded[1]
    ELSE direct_host

min(a, b) == IF a <= b THEN a ELSE b

\* TokenBucket.__init__
TokenBucket(capacity, t) == [tokens |-> capacity * TOKEN, last_refill |-> t]

\* TokenBucket.consume, the refill: the bucket before the test of one token
refill(bucket, capacity, rate, t) ==
    [tokens |-> min(capacity * TOKEN, bucket.tokens + (t - bucket.last_refill) * rate),
     last_refill |-> t]

\* the keys _get_bucket evicts on every 1000th request
evicted(count, last_seen, t) ==
    IF count % EVICTION_EVERY = 0
    THEN {k \in DOMAIN last_seen : last_seen[k] < t - IP_EVICTION_IDLE_SECONDS}
    ELSE {}

\* dict.pop of the evicted keys
pop_all(dict, keys) == [k \in DOMAIN dict \ keys |-> dict[k]]

\* dict[key] = value
put(dict, key, value) ==
    [k \in DOMAIN dict \cup {key} |-> IF k = key THEN value ELSE dict[k]]

NoRequest ==
    [kind |-> "none", peer |-> UNKNOWN_HOST, forwarded |-> << >>, path |-> "exempt",
     client_ip |-> UNKNOWN_HOST, status |-> 0]

\* RateLimitMiddleware.__init__, and the middleware after 998 requests that one
\* client sent to other paths within the first second
InitRL ==
    /\ rlNow = 0
    /\ rlTicks = 0
    /\ rlOrderBuckets = << >>
    /\ rlLast = NoRequest
    /\ rlHandled = 0
    /\ \/ /\ rlRequestCount = 0
          /\ rlBuckets = << >>
          /\ rlLastSeen = << >>
       \/ /\ rlRequestCount = EVICTION_EVERY - 2
          /\ rlBuckets = [k \in {<<203, 0, 113, 7>>} |-> [tokens |-> 0, last_refill |-> 0]]
          /\ rlLastSeen = [k \in {<<203, 0, 113, 7>>} |-> 0]

\* dispatch on an exempt path: the request is passed on
DispatchExempt(peer, forwarded) ==
    /\ rlHandled < MaxRlRequests
    /\ rlHandled' = rlHandled + 1
    /\ rlLast' = [NoRequest EXCEPT !.kind = "exempt", !.status = 200]
    /\ UNCHANGED <<rlNow, rlTicks, rlBuckets, rlOrderBuckets, rlLastSeen, rlRequestCount>>
    /\ UNCHANGED notRL

\* dispatch on another path: _get_client_ip, _get_bucket with its eviction, then
\* consume; 429 when the bucket holds less than one token
Dispatch(peer, forwarded, path) ==
    LET client_ip == get_client_ip(peer, forwarded)
        is_order == path = "orders"
        count == rlRequestCount + 1
        seen == put(rlLastSeen, client_ip, rlNow)
        gone == evicted(count, seen, rlNow)
        default_buckets == pop_all(rlBuckets, gone)
        order_buckets == pop_all(rlOrderBuckets, gone)
        buckets == IF is_order THEN order_buckets ELSE default_buckets
        capacity == IF is_order THEN ORDER_REQUESTS_PER_MINUTE ELSE REQUESTS_PER_MINUTE
        bucket == IF client_ip \in DOMAIN buckets THEN buckets[client_ip]
                  ELSE TokenBucket(capacity, rlNow)
        filled == refill(bucket, capacity, capacity, rlNow)
        allowed == filled.tokens >= TOKEN
        after == IF allowed THEN [filled EXCEPT !.tokens = @ - TOKEN] ELSE filled
    IN  /\ path # "exempt"
        /\ rlHandled < MaxRlRequests
        /\ rlHandled' = rlHandled + 1
        /\ rlRequestCount' = count
        /\ rlLastSeen' = pop_all(seen, gone)
        /\ rlBuckets' = IF is_order THEN default_buckets ELSE put(default_buckets, client_ip, after)
        /\ rlOrderBuckets' = IF is_order THEN put(order_buckets, client_ip, after) ELSE order_buckets
        /\ rlLast' = [kind |-> "limited", peer |-> peer, forwarded |-> forwarded,
                      path |-> path, client_ip |-> client_ip,
                      status |-> IF allowed THEN 200 ELSE 429]
        /\ UNCHANGED <<rlNow, rlTicks>>
        /\ UNCHANGED notRL

\* time.monotonic() advances by a second, or by more than the eviction idle time
RlTick(seconds) ==
    /\ rlTicks < MaxRlTicks
    /\ rlTicks' = rlTicks + 1
    /\ rlNow' = rlNow + seconds
    /\ UNCHANGED <<rlBuckets, rlOrderBuckets, rlLastSeen, rlRequestCount, rlHandled,
                   rlLast>>
    /\ UNCHANGED notRL

NextRL ==
    \/ \E peer \in Hosts, forwarded \in ForwardedHeaders : DispatchExempt(peer, forwarded)
    \/ \E peer \in Hosts, forwarded \in ForwardedHeaders, path \in PathKinds :
          Dispatch(peer, forwarded, path)
    \/ \E seconds \in {1, IP_EVICTION_IDLE_SECONDS + 1} : RlTick(seconds)

----------------------------------------------------------------------------
(* Specifications: one per subsystem; the other subsystems stay as built.  *)

\* the initial state of a subsystem that a specification does not exercise
RestPO == cache = << >> /\ calls = << >> /\ orderRows = {}
RestFSM == order = [status |-> "CREATED", quantity |-> 1, filled_quantity |-> 0]
               /\ lastCall = NoCall
RestSync == localStatus = << >> /\ hasBrokerId = << >>
               /\ syncPc = "sleep" /\ openOrders = << >>
               /\ brokerStatuses = [o \in {} |-> "Unknown"]
               /\ syncIdx = 1 /\ lastWrite = NoWrite
               /\ brokerReport = << >>
RestCB == failure_threshold = 1 /\ recovery_timeout = 1 /\ cbState = "closed"
               /\ failure_count = 0 /\ last_failure_time = 0 /\ success_count = 0
               /\ now = 0 /\ cbCalls = << >> /\ cbLast = NoCbStep /\ streak = 0
RestRetry == max_retries = 0 /\ retryable_exceptions = {} /\ retryPc = "call"
               /\ attempt = 0 /\ funcCalls = 0 /\ raisedSeq = << >>
               /\ retryResult = "none"
RestRisk == rcInput = << >> /\ rcResult = NoResult
RestPB == pbExchange = "HOSE" /\ pbReference = 1000 /\ pbBand = NoPriceBand
RestST == stBuyDate = 0 /\ stCurrentDate = 0 /\ stHour = 0 /\ stResult = << >>
RestPL == plConfig = [fundamental |-> FALSE, kill_switch_active |-> FALSE, broker |-> FALSE]
               /\ plState = InitialState(TRUE) /\ plNode = "inject_context"
               /\ plTrace = << >> /\ plSubmitted = << >>
RestAuth == authToken = NoToken /\ authNow = 0 /\ authLock = 0 /\ authWaiters = << >>
               /\ authCalls = << >> /\ authRequests = 0
RestSH == shPc = "serving" /\ shHasPool = FALSE /\ poolShutdown = FALSE /\ poolConns = {}
               /\ connections = [m \in Managers |-> {}]
               /\ sockets = [ws \in Sockets |-> NewSocket] /\ shLog = << >>
RestBC == bcConnections = {} /\ bcLock = "free" /\ bcSock = [ws \in Sockets |-> "new"]
               /\ bcPc = "idle" /\ bcSnapshot = {} /\ bcTodo = {} /\ bcDisconnected = {}
               /\ bcSent = {} /\ bcAdded = {}
RestBR == brBreaker = [state |-> "closed", failure_count |-> 0, last_failure_time |-> 0,
                            success_count |-> 0]
               /\ brNow = 0 /\ brCalls = << >> /\ brStarted = 0 /\ brHttp = NoHttp
               /\ brLast = NoBrStep
RestDP == dpMax = 1 /\ dpSemaphore = 1 /\ dpShutdown = FALSE /\ dpAll = {} /\ dpOpen = {}
               /\ dpOpened = 0 /\ dpLocal = << >> /\ dpPc = << >> /\ dpShPc = "init"
               /\ dpSnapshot = {}
RestRL == rlNow = 0 /\ rlTicks = 0 /\ rlBuckets = << >> /\ rlOrderBuckets = << >>
               /\ rlLastSeen = << >> /\ rlRequestCount = 0 /\ rlHandled = 0
               /\ rlLast = NoRequest

InitPlaceOrder == InitPO /\ RestFSM /\ RestSync /\ InitDA /\ RestCB
    /\ RestRetry /\ RestRisk /\ RestPB /\ RestST /\ RestPL /\ RestAuth
    /\ RestSH /\ RestBC /\ RestBR /\ RestDP /\ RestRL
InitOrderFSM == RestPO /\ InitFSM /\ RestSync /\ InitDA /\ RestCB
    /\ RestRetry /\ RestRisk /\ RestPB /\ RestST /\ RestPL /\ RestAuth
    /\ RestSH /\ RestBC /\ RestBR /\ RestDP /\ RestRL
InitOrderSync == RestPO /\ RestFSM /\ InitSync /\ InitDA /\ RestCB
    /\ RestRetry /\ RestRisk /\ RestPB /\ RestST /\ RestPL /\ RestAuth
    /\ RestSH /\ RestBC /\ RestBR /\ RestDP /\ RestRL
InitOrderSyncSteady == RestPO /\ RestFSM /\ InitSyncSteady /\ InitDA
    /\ RestCB /\ RestRetry /\ RestRisk /\ RestPB /\ RestST /\ RestPL
    /\ RestAuth /\ RestSH /\ RestBC /\ RestBR /\ RestDP /\ RestRL
InitDataAgent == RestPO /\ RestFSM /\ RestSync /\ InitDA /\ RestCB
    /\ RestRetry /\ RestRisk /\ RestPB /\ RestST /\ RestPL /\ RestAuth
    /\ RestSH /\ RestBC /\ RestBR /\ RestDP /\ RestRL
InitCircuitBreaker == RestPO /\ RestFSM /\ RestSync /\ InitDA /\ InitCB
    /\ RestRetry /\ RestRisk /\ RestPB /\ RestST /\ RestPL /\ RestAuth
    /\ RestSH /\ RestBC /\ RestBR /\ RestDP /\ RestRL
InitRetryAsync == RestPO /\ RestFSM /\ RestSync /\ InitDA /\ RestCB
    /\ InitRetry /\ RestRisk /\ RestPB /\ RestST /\ RestPL /\ RestAuth
    /\ RestSH /\ RestBC /\ RestBR /\ RestDP /\ RestRL
InitRiskCheck == RestPO /\ RestFSM /\ RestSync /\ InitDA /\ RestCB
    /\ RestRetry /\ InitRisk /\ RestPB /\ RestST /\ RestPL /\ RestAuth
    /\ RestSH /\ RestBC /\ RestBR /\ RestDP /\ RestRL
InitPriceBand == RestPO /\ RestFSM /\ RestSync /\ InitDA /\ RestCB
    /\ RestRetry /\ RestRisk /\ InitPB /\ RestST /\ RestPL /\ RestAuth
    /\ RestSH /\ RestBC /\ RestBR /\ RestDP /\ RestRL
InitSettlement == RestPO /\ RestFSM /\ RestSync /\ InitDA /\ RestCB
    /\ RestRetry /\ RestRisk /\ RestPB /\ InitST /\ RestPL /\ RestAuth
    /\ RestSH /\ RestBC /\ RestBR /\ RestDP /\ RestRL
InitPipeline == RestPO /\ RestFSM /\ RestSync /\ InitDA /\ RestCB
    /\ RestRetry /\ RestRisk /\ RestPB /\ RestST /\ InitPL /\ RestAuth
    /\ RestSH /\ RestBC /\ RestBR /\ RestDP /\ RestRL
InitAuthClient == RestPO /\ RestFSM /\ RestSync /\ InitDA /\ RestCB
    /\ RestRetry /\ RestRisk /\ RestPB /\ RestST /\ RestPL /\ InitAuth
    /\ RestSH /\ RestBC /\ RestBR /\ RestDP /\ RestRL
InitShutdown == RestPO /\ RestFSM /\ RestSync /\ InitDA /\ RestCB
    /\ RestRetry /\ RestRisk /\ RestPB /\ RestST /\ RestPL /\ RestAuth
    /\ InitSH /\ RestBC /\ RestBR /\ RestDP /\ RestRL
InitBroadcast == RestPO /\ RestFSM /\ RestSync /\ InitDA /\ RestCB
    /\ RestRetry /\ RestRisk /\ RestPB /\ RestST /\ RestPL /\ RestAuth
    /\ RestSH /\ InitBC /\ RestBR /\ RestDP /\ RestRL
InitBrokerClient == RestPO /\ RestFSM /\ RestSync /\ InitDA /\ RestCB
    /\ RestRetry /\ RestRisk /\ RestPB /\ RestST /\ RestPL /\ RestAuth
    /\ RestSH /\ RestBC /\ InitBR /\ RestDP /\ RestRL
InitConnectionPool == RestPO /\ RestFSM /\ RestSync /\ InitDA /\ RestCB
    /\ RestRetry /\ RestRisk /\ RestPB /\ RestST /\ RestPL /\ RestAuth
    /\ RestSH /\ RestBC /\ RestBR /\ InitDP /\ RestRL
InitRateLimit == RestPO /\ RestFSM /\ RestSync /\ InitDA /\ RestCB
    /\ RestRetry /\ RestRisk /\ RestPB /\ RestST /\ RestPL /\ RestAuth
    /\ RestSH /\ RestBC /\ RestBR /\ RestDP /\ InitRL

SpecPlaceOrder == InitPlaceOrder /\ [][NextPO]_vars
SpecOrderFSM == InitOrderFSM /\ [][NextFSM]_vars
SpecOrderSync == InitOrderSync /\ [][NextSync]_vars
SpecOrderSyncSteady == InitOrderSyncSteady /\ [][NextSyncSteady]_vars /\ WF_vars(NextSyncSteady)
SpecDataAgent == InitDataAgent /\ [][NextDA]_vars
SpecCircuitBreaker == InitCircuitBreaker /\ [][NextCB]_vars
SpecRetryAsync == InitRetryAsync /\ [][NextRetry]_vars
SpecRiskCheck == InitRiskCheck /\ [][NextRisk]_vars
SpecPriceBand == InitPriceBand /\ [][NextPB]_vars
SpecSettlement == InitSettlement /\ [][NextST]_vars
SpecPipeline == InitPipeline /\ [][NextPL]_vars
SpecAuthClient == InitAuthClient /\ [][NextAuth]_vars
SpecShutdown == InitShutdown /\ [][NextSH]_vars
SpecBroadcast == InitBroadcast /\ [][NextBC]_vars
SpecBrokerClient == InitBrokerClient /\ [][NextBR]_vars
SpecConnectionPool == InitConnectionPool /\ [][NextDP]_vars
SpecRateLimit == InitRateLimit /\ [][NextRL]_vars

----------------------------------------------------------------------------
(* Claims about place_order, checked under SpecPlaceOrder                  *)

\* invocation b started while invocation a was still running
Concurrent(a, b) ==
    /\ a < b
    /\ calls[a].pc = "done" /\ calls[b].pc = "done"
    /\ a \notin calls[b].after

\* invocation c started after invocation a had returned
Later(a, c) == calls[c].pc = "done" /\ a \in calls[c].after

\* C1: two place_order invocations with the same idempotency key that overlap in
\* time, with dry_run false, make at most one broker call between them and return
\* the same order_id.
C1_ConcurrentSameKeySubmitsOnce ==
    \A a, b \in Calls :
        (/\ Concurrent(a, b)
         /\ calls[a].key = calls[b].key
         /\ ~calls[a].dry_run /\ ~calls[b].dry_run)
        => /\ calls[a].broker_calls + calls[b].broker_calls <= 1
           /\ calls[a].result.order_id = calls[b].result.order_id

\* C2: once a place_order call with key k has returned success, every later call
\* with key k returns was_duplicate = true with the same order_id and
\* broker_order_id, and makes no broker call.
C2_LaterCallIsDuplicateOfSuccess ==
    \A a, c \in Calls :
        (/\ Later(a, c)
         /\ calls[a].key = calls[c].key
         /\ calls[a].result.success)
        => /\ calls[c].result.was_duplicate
           /\ calls[c].result.order_id = calls[a].result.order_id
           /\ calls[c].result.broker_order_id = calls[a].result.broker_order_id
           /\ calls[c].broker_calls = 0

\* invocation a was rejected by the risk gate
RiskRejected(a) ==
    /\ calls[a].pc = "done"
    /\ ~calls[a].result.was_duplicate
    /\ ~calls[a].result.success
    /\ calls[a].result.error \in Reasons

\* C3: if a place_order call with key k was rejected by the risk gate with reason
\* R, every later call with key k returns success = false and error = R, without
\* running the risk gate or calling the broker.
C3_RejectionIsReplayedVerbatim ==
    \A a, c \in Calls :
        (/\ RiskRejected(a)
         /\ Later(a, c)
         /\ calls[a].key = calls[c].key)
        => /\ ~calls[c].result.success
           /\ calls[c].result.error = calls[a].result.error
           /\ calls[c].risk_calls = 0
           /\ calls[c].broker_calls = 0

\* C16: when the risk gate rejects a request, no broker call is made for it and
\* no order row is persisted for it.
C16_RejectionPrecedesBroker ==
    \A a \in Calls :
        RiskRejected(a) => /\ calls[a].broker_calls = 0
                           /\ calls[a].result.order_id = None
                           /\ FreshOrderId(a) \notin orderRows

\* a request was rejected by the gate while another one was submitted and persisted
C16_Witness ==
    \E a, b \in Calls :
        /\ RiskRejected(a)
        /\ calls[b].pc = "done" /\ calls[b].broker_calls = 1
        /\ FreshOrderId(b) \in orderRows

\* invocation a returned because its broker call raised
BrokerFailed(a) ==
    /\ calls[a].pc = "done"
    /\ calls[a].broker_calls = 1
    /\ calls[a].result.broker_order_id = None

\* C17: if the broker call raises, place_order returns success = false carrying the
\* error, the key is in the idempotency store when it returns, and a later
\* place_order with the same key is answered from the store without a broker call.
C17_BrokerFailureIsRecorded ==
    \A a \in Calls :
        BrokerFailed(a) =>
            /\ ~calls[a].result.success
            /\ calls[a].result.error = "Broker error"
            /\ check(calls[a].key)
            /\ \A c \in Calls :
                  (Later(a, c) /\ calls[c].key = calls[a].key)
                      => calls[c].result.was_duplicate /\ calls[c].broker_calls = 0

\* a broker failure was followed by a retry with the same key
C17_Witness ==
    \E a, c \in Calls :
        /\ BrokerFailed(a)
        /\ Later(a, c) /\ calls[c].key = calls[a].key
        /\ calls[c].result.was_duplicate

\* invocation a returned after the broker accepted the order and the save failed
PersistFailed(a) ==
    /\ calls[a].pc = "done"
    /\ calls[a].broker_calls = 1
    /\ calls[a].result.error # "Broker error"
    /\ FreshOrderId(a) \notin orderRows

\* C18: if persisting the order row fails after the broker accepted the order,
\* place_order still returns success = true with the broker_order_id, and on
\* returning it has recorded that result under the idempotency key.
C18_PersistFailureDoesNotMask ==
    /\ [](\A a \in Calls :
            PersistFailed(a) => /\ calls[a].result.success
                                /\ calls[a].result.order_id = FreshOrderId(a)
                                /\ calls[a].result.broker_order_id = FreshBrokerId(a)
                                /\ check(calls[a].key))
    /\ [][\A a \in Calls :
            (calls[a].pc = "persist" /\ calls'[a].pc = "done")
                => cache'[calls[a].key] = calls'[a].result]_vars

\* an accepted order whose row was not saved came back as a success
C18_Witness ==
    \E a \in Calls : PersistFailed(a) /\ calls[a].result.success

----------------------------------------------------------------------------
(* Claims about the Order entity, checked under SpecOrderFSM               *)

\* the whitelist as the specification of the order lifecycle states it
Whitelist ==
    {<<"CREATED", "PENDING">>, <<"CREATED", "REJECTED">>, <<"CREATED", "CANCELLED">>,
     <<"PENDING", "PARTIAL_FILL">>, <<"PENDING", "MATCHED">>,
     <<"PENDING", "BROKER_REJECTED">>, <<"PENDING", "CANCELLED">>,
     <<"PARTIAL_FILL", "PARTIAL_FILL">>, <<"PARTIAL_FILL", "MATCHED">>,
     <<"PARTIAL_FILL", "CANCELLED">>}

\* C4: transition_to(t) on an order in status s returns a new order with status t
\* exactly when (s, t) is in the whitelist; every other pair raises the
\* invalid-transition error and leaves the order as it was.
C4_TransitionIffWhitelisted ==
    lastCall.raised # "no call" =>
        IF <<lastCall.from, lastCall.to>> \in Whitelist
        THEN lastCall.raised = "None" /\ order.status = lastCall.to
        ELSE lastCall.raised = "InvalidOrderTransitionError"
             /\ order.status = lastCall.from

\* a whitelisted self-transition succeeded
C4_Witness ==
    /\ lastCall.from = "PARTIAL_FILL" /\ lastCall.to = "PARTIAL_FILL"
    /\ lastCall.raised = "None"
    /\ order.status = "PARTIAL_FILL"

\* C5: once an order that started in CREATED is MATCHED, REJECTED, BROKER_REJECTED
\* or CANCELLED, no later transition_to succeeds and its status never changes.
C5_TerminalIsFinal ==
    [][order.status \in {"MATCHED", "REJECTED", "BROKER_REJECTED", "CANCELLED"}
          => /\ order'.status = order.status
             /\ lastCall'.raised = "InvalidOrderTransitionError"]_vars

\* a transition was attempted on a terminal order and was refused
C5_Witness ==
    /\ order.status \in {"MATCHED", "REJECTED", "BROKER_REJECTED", "CANCELLED"}
    /\ lastCall.from = order.status
    /\ lastCall.raised = "InvalidOrderTransitionError"

\* C6: every order produced by successful transition_to calls, with any field
\* patch, from an order with 0 <= filled_quantity <= quantity, still has
\* filled_quantity <= quantity.
C6_FilledNeverExceedsQuantity ==
    order.filled_quantity <= order.quantity

----------------------------------------------------------------------------
(* Claims about the order status synchronizer, checked under SpecOrderSync *)

\* C7: every status the synchronizer writes is one of the seven order statuses and
\* a whitelisted successor of the order's local status at the time of the write.
C7_SyncWritesAreWhitelisted ==
    lastWrite # NoWrite =>
        /\ lastWrite.new \in OrderStatus
        /\ <<lastWrite.old, lastWrite.new>> \in Whitelist

\* C8: no step changes the stored status of an order whose local status is
\* terminal, also when the order became terminal after the synchronizer fetched it.
C8_TerminalNeverOverwritten ==
    [][\A o \in OrderIds :
          localStatus[o] \in {"MATCHED", "REJECTED", "BROKER_REJECTED", "CANCELLED"}
             => localStatus'[o] = localStatus[o]]_vars

\* the local status the broker's steady report maps to
SteadyTarget(o) == SSI_STATUS_MAP(brokerReport[o])

\* C32: with a broker that keeps reporting the same status and calls that succeed,
\* an order whose reported status maps to a whitelisted successor of its local
\* status reaches that status in the store and keeps it, and once the store holds
\* it no further update is written for the order
C32_LocalConvergesToBroker ==
    /\ \A o \in OrderIds :
          (hasBrokerId[o] /\ SteadyTarget(o) \in ValidTransitions(localStatus[o]))
              ~> [](localStatus[o] = SteadyTarget(o))
    /\ [][\A o \in OrderIds :
             localStatus[o] = SteadyTarget(o)
                 => (lastWrite' = lastWrite \/ lastWrite'.order_id # o)]_vars

\* a PENDING order the broker reports as Filled has been written as MATCHED and
\* the cycle that wrote it is over
C32_Witness ==
    \E o \in OrderIds :
        /\ hasBrokerId[o]
        /\ brokerReport[o] = "Filled"
        /\ localStatus[o] = "MATCHED"
        /\ lastWrite = [order_id |-> o, old |-> "PENDING", new |-> "MATCHED"]
        /\ syncPc = "sleep"

----------------------------------------------------------------------------
(* Claims about the ingestion pipeline, checked under SpecDataAgent        *)

\* stop() has returned and both loops of the task group have ended
Terminated == stopPc = "done" /\ flushPc = "done" /\ ingestPc = "done"

\* C9: when a run of the ingestion pipeline has terminated normally,
\* total_ingested = total_flushed. Stated in its weakest reading: every task has
\* ended, no call failed, and the bounded buffer never discarded a tick.
C9_CountersConverge ==
    (Terminated /\ dropped = 0) => total_ingested = total_flushed

RECURSIVE Flatten(_)
\* the ticks handed to insert_batch, batch after batch
Flatten(batches) ==
    IF batches = << >> THEN << >> ELSE Head(batches) \o Flatten(Tail(batches))

\* C10: ticks reach insert_batch in source order: of two ticks handed to
\* insert_batch, the one that came first from the stream is in an earlier batch,
\* or earlier in the same batch.
C10_TickOrderPreserved ==
    LET flat == Flatten(insertCalls) IN
    \A i, j \in DOMAIN flat : i < j => flat[i] < flat[j]

\* two insert_batch calls were made, one of them with several ticks
C10_Witness ==
    /\ Len(insertCalls) >= 2
    /\ \E i \in DOMAIN insertCalls : Len(insertCalls[i]) >= 2
    /\ Len(Flatten(insertCalls)) >= 3

----------------------------------------------------------------------------
(* Claims about the circuit breaker, checked under SpecCircuitBreaker      *)

\* C11: starting from CLOSED with failure_count 0, after k consecutive failed calls
\* the breaker is still CLOSED for every k below failure_threshold, and it is OPEN
\* immediately after the failure that brings k to failure_threshold.
C11_OpensAtThreshold ==
    /\ streak < failure_threshold => cbState = "closed" /\ failure_count = streak
    /\ (cbLast.kind = "failure" /\ streak >= failure_threshold) => cbState = "open"

\* the failure that reached a threshold above one has just opened the breaker
C11_Witness ==
    /\ failure_threshold >= 2
    /\ cbLast.kind = "failure"
    /\ streak = failure_threshold
    /\ cbState = "open"

\* C12: a call that finds the breaker OPEN before recovery_timeout has elapsed since
\* last_failure_time fails with the circuit-open error, does not invoke the function
\* and leaves state and failure_count alone; a call that finds it OPEN at or after
\* the timeout moves it to HALF_OPEN and invokes the function.
C12_OpenRejectsUntilTimeout ==
    (cbLast.kind \in {"rejected", "admitted"} /\ cbLast.state = "open") =>
        IF cbLast.time - cbLast.last_failure_time >= recovery_timeout
        THEN /\ cbLast.kind = "admitted"
             /\ cbState = "half_open"
             /\ cbCalls[cbLast.call].invoked
        ELSE /\ cbLast.kind = "rejected"
             /\ cbCalls[cbLast.call].outcome = "CircuitOpenError"
             /\ ~cbCalls[cbLast.call].invoked
             /\ cbState = "open"
             /\ failure_count = cbLast.failure_count

\* a call arriving exactly recovery_timeout after the last failure was let through
C12_Witness ==
    /\ cbLast.kind = "admitted" /\ cbLast.state = "open"
    /\ cbLast.time - cbLast.last_failure_time = recovery_timeout
    /\ cbState = "half_open"
    /\ \E c \in CbCalls : cbCalls[c].outcome = "CircuitOpenError"

\* calls in flight that were admitted as probes (they found OPEN past the timeout,
\* or HALF_OPEN)
Probes ==
    {c \in CbCalls : cbCalls[c].pc = "inflight"
                       /\ cbCalls[c].entry_state \in {"open", "half_open"}}

\* C13: in HALF_OPEN one probe is admitted: while a probe is in flight no other
\* call admitted as a probe has its function invoked.
C13_OneProbeInHalfOpen == Cardinality(Probes) <= 1

\* C14: a call that succeeds while the breaker is HALF_OPEN leaves it CLOSED with
\* failure_count 0; a call that fails while it is HALF_OPEN leaves it OPEN with
\* last_failure_time set to the time of that failure.
C14_ProbeOutcomeDecides ==
    /\ (cbLast.kind = "success" /\ cbLast.state = "half_open")
          => cbState = "closed" /\ failure_count = 0
    /\ (cbLast.kind = "failure" /\ cbLast.state = "half_open")
          => /\ cbState = "open"
             /\ last_failure_time = cbLast.time
             /\ ~recovery_elapsed(now, last_failure_time, recovery_timeout)
                   \/ now >= cbLast.time + recovery_timeout

\* a probe failed later than the failure that had opened the breaker
C14_Witness ==
    /\ cbLast.kind = "failure" /\ cbLast.state = "half_open"
    /\ cbLast.time > cbLast.last_failure_time
    /\ cbState = "open"

----------------------------------------------------------------------------
(* Claims about retry_async, checked under SpecRetryAsync                  *)

\* exc is an instance of one of the configured retryable classes
Configured(exc) == exc \in UNION {CaughtBy(cls) : cls \in retryable_exceptions}

\* C15: retry_async calls func at most max_retries + 1 times; every exception it
\* retried after is of a configured retryable class; an exception of another class
\* is re-raised at once; and after max_retries retries the last exception is
\* re-raised.
C15_RetryIsBounded ==
    /\ funcCalls <= max_retries + 1
    /\ funcCalls = Len(raisedSeq) + (IF retryPc = "returned" THEN 1 ELSE 0)
    /\ \A i \in DOMAIN raisedSeq :
          \/ Configured(raisedSeq[i])
          \/ i = Len(raisedSeq) /\ retryPc = "raised" /\ retryResult = raisedSeq[i]
    /\ (retryPc = "raised" /\ raisedSeq # << >>)
          => /\ retryResult = raisedSeq[Len(raisedSeq)]
             /\ ~Configured(retryResult) \/ funcCalls = max_retries + 1
    /\ retryPc = "sleep" => funcCalls <= max_retries

\* every retry was used up and the last exception came out
C15_Witness ==
    /\ max_retries = MaxRetries
    /\ retryPc = "raised"
    /\ funcCalls = max_retries + 1
    /\ retryResult = "TimeoutError"
    /\ raisedSeq[1] = "ConnectionError"

----------------------------------------------------------------------------
(* Claims about validate_order, checked under SpecRiskCheck                *)

Range(seq) == {seq[i] : i \in DOMAIN seq}

\* order_value / NAV > max_position_pct, with the quotient taken as unbounded when
\* a positive order value is set against a NAV of zero
ExceedsShareOfNav(in) ==
    LET order_value == in.price * in.quantity
        nav == net_asset_value(in)
    IN  IF nav > 0 THEN order_value * 100 > in.max_position_pct * nav
        ELSE nav = 0 /\ order_value > 0

\* the checks an input violates, as the check catalog states them
ViolatedChecks(in) ==
    {t \in {"PRICE_BAND", "LOT_SIZE", "POSITION_SIZE", "BUYING_POWER", "SELLABLE_QTY"} :
        \/ t = "PRICE_BAND" /\ in.price_band # NoBand
              /\ (in.price > in.price_band.ceiling_price
                    \/ in.price < in.price_band.floor_price
                    \/ in.price % in.price_band.tick_size # 0)
        \/ t = "LOT_SIZE" /\ in.quantity % 100 # 0
        \/ t = "POSITION_SIZE" /\ ExceedsShareOfNav(in)
        \/ t = "BUYING_POWER" /\ in.side = "BUY"
              /\ in.price * in.quantity > in.purchasing_power
        \/ t = "SELLABLE_QTY" /\ in.side = "SELL"
              /\ in.quantity > in.sellable_qty - in.pending_sell_qty}

\* C20: with the kill switch off, checks_failed names exactly the violated checks
\* among PRICE_BAND, LOT_SIZE, POSITION_SIZE, BUYING_POWER and SELLABLE_QTY, whatever
\* failed before, and approved is true exactly when checks_failed is empty.
C20_AllChecksEvaluated ==
    (rcResult # NoResult /\ ~rcInput.kill_switch_active) =>
        /\ Range(rcResult.checks_failed) = ViolatedChecks(rcInput)
        /\ rcResult.approved <=> (rcResult.checks_failed = << >>)

----------------------------------------------------------------------------
(* Claims about calculate_price_band, checked under SpecPriceBand          *)

\* C21: for every exchange and every positive reference price, the band
\* calculate_price_band returns has floor <= reference <= ceiling, and the
\* ceiling and the floor are exact multiples of the tick size.
C21_BandContainsReference ==
    pbBand # NoPriceBand =>
        /\ pbBand.floor_price <= pbReference
        /\ pbReference <= pbBand.ceiling_price
        /\ pbBand.ceiling_price % pbBand.tick_size = 0
        /\ pbBand.floor_price % pbBand.tick_size = 0

----------------------------------------------------------------------------
(* Claims about can_sell_now, checked under SpecSettlement                 *)

\* a weekday that is not a public holiday
TradingDay(d) == weekday(d) \in 0..4 /\ d \notin VN_HOLIDAYS_2026

\* the second trading day strictly after d
SecondTradingDayAfter(d) ==
    CHOOSE s \in (d + 1)..(d + 14) :
        /\ TradingDay(s)
        /\ Cardinality({x \in (d + 1)..s : TradingDay(x)}) = 2

\* C22: can_sell_now(buy_date, current_date, current_hour) is true exactly
\* when current_date is after the settlement date, or is the settlement date
\* and current_hour >= 13; the settlement date is the second trading day
\* (a weekday that is not a holiday) strictly after buy_date.
C22_SellableFromSettlementAfternoon ==
    stResult # << >> =>
        LET settlement == SecondTradingDayAfter(stBuyDate)
        IN  stResult[1] <=> \/ stCurrentDate > settlement
                            \/ stCurrentDate = settlement /\ stHour >= 13

\* bought on Friday 2026-01-23, before the Lunar New Year week: the shares
\* become sellable on Tuesday 2026-02-03 at 13:00
C22_Witness ==
    /\ stBuyDate = 22 /\ stCurrentDate = 33 /\ stHour = 13
    /\ stResult = <<TRUE>>

----------------------------------------------------------------------------
(* Claims about the trading pipeline, checked under SpecPipeline           *)

\* C23: routing is a function of the shared state: after the screener the
\* graph runs technical iff the watchlist is non-empty; after technical it
\* runs fundamental (when configured, else risk) iff top_candidates is
\* non-empty; after risk it runs the executor iff approved_trades is
\* non-empty; in every other case it runs finalize.
C23_RoutingFollowsState ==
    [][ /\ plNode = "screener" =>
              plNode' = IF plState'.watchlist # << >> THEN "technical"
                        ELSE "finalize"
        /\ plNode = "technical" =>
              plNode' = IF plState'.top_candidates = << >> THEN "finalize"
                        ELSE IF plConfig.fundamental THEN "fundamental"
                        ELSE "risk"
        /\ plNode = "risk" =>
              plNode' = IF plState'.approved_trades # << >> THEN "executor"
                        ELSE "finalize" ]_vars

\* technical found signals and the configured fundamental agent is next
C23_Witness ==
    /\ plTrace = <<"inject_context", "screener", "technical">>
    /\ plState.top_candidates # << >>
    /\ plNode = "fundamental"

\* the agents in pipeline order
AgentOrder ==
    IF plConfig.fundamental
    THEN <<"inject_context", "screener", "technical", "fundamental", "risk",
           "executor">>
    ELSE <<"inject_context", "screener", "technical", "risk", "executor">>

IsPrefix(p, s) == Len(p) <= Len(s) /\ \A i \in DOMAIN p : p[i] = s[i]

PlannedSymbols ==
    {plState.execution_plans[i].symbol : i \in DOMAIN plState.execution_plans}

\* the symbols whose early-warning level is critical
CriticalSymbols ==
    {s \in DOMAIN plState.early_warning_results :
        plState.early_warning_results[s] = "critical"}

\* C25: a symbol whose early-warning risk_level is critical is never in
\* approved_trades nor in execution_plans; with the kill switch active,
\* approved_trades is empty and the executor does not run.
C25_VetoesAreFinal ==
    /\ \A s \in CriticalSymbols :
          s \notin Elements(plState.approved_trades) /\ s \notin PlannedSymbols
    /\ plConfig.kill_switch_active =>
          /\ plState.approved_trades = << >>
          /\ "executor" \notin Elements(plTrace)

\* the risk agent vetoed a critical candidate, approved another one, and the
\* executor planned the approved one
C25_Witness ==
    /\ "executor" \in Elements(plTrace)
    /\ \E s \in CriticalSymbols : s \in Elements(plState.top_candidates)
    /\ plState.execution_plans # << >>

\* C26: with dry_run false, the executor places each order under the key
\* run_id:symbol:action, and the broker receives at most one submission per
\* key within a run.
C26_OneSubmissionPerKey ==
    \A i, j \in DOMAIN plSubmitted :
        plSubmitted[i] = plSubmitted[j] => i = j

----------------------------------------------------------------------------
(* Claims about SSIAuthClient, checked under SpecAuthClient                *)

\* the callers whose authentication request is in flight
InFlight == {c \in AuthCallers : authCalls[c].pc = "authenticating"}

\* C27: with callers arriving while no valid token is cached, at most one
\* authentication request is in flight at any time, and once that request
\* has succeeded every caller that was waiting on it returns the new token
\* without sending a request of its own.
C27_OneRefreshServesAll ==
    /\ Cardinality(InFlight) <= 1
    /\ \A c \in AuthCallers :
          authCalls[c].served_by # 0 =>
              /\ authCalls[c].requests = 0
              /\ authCalls[c].pc = "returned" =>
                    authCalls[c].result = authCalls[c].served_by

\* the symbols a connection delivers: those of the last subscription message sent
\* on it, none when no message was sent
Delivered(sub) == IF sub = << >> THEN {} ELSE sub[1]

\* a connection opened by the reconnect loop (start() opens the first one)
Reconnected(conn) == conn >= 2

\* C28: a connection lost to a transport error puts the client into its reconnect
\* loop; a reconnect that succeeds sends the symbols of the last subscribe() call
\* on the new connection before the stream iterates it; and as long as
\* disconnect() has not been called, a connection the reconnect loop opened
\* carries the subscription for exactly those symbols whenever it is iterated
C28_ReconnectReplaysSubscription ==
    [][/\ (/\ streamPc = "recv"
           /\ streamConn \in connOpen
           /\ streamConn \notin connOpen'
           /\ stopPc' = stopPc)
          => (streamPc' = "backoff" /\ wsState' = "reconnecting" /\ wsConn' = 0)
       /\ (streamPc = "connecting" /\ connCount' > connCount)
          => /\ Reconnected(wsConn')
             /\ Delivered(connSub'[wsConn']) = subscribed
             /\ subscribed # {} => streamPc' = "subscribing"
       /\ (/\ streamPc' = "recv"
           /\ Reconnected(streamConn')
           /\ stopPc' = "init")
          => Delivered(connSub'[streamConn']) = subscribed']_vars

\* the first connection is gone, two symbols are subscribed, the stream iterates
\* the second connection, which carries their subscription, and a tick has come
C28_Witness ==
    /\ subscribed = {"FPT", "VNM"}
    /\ connSub[2] = <<subscribed>>
    /\ streamPc = "recv"
    /\ streamConn = 2
    /\ wsState = "connected"
    /\ connOpen = {2}
    /\ stopPc = "init"
    /\ total_ingested >= 1

\* the ticks the ingest loop has appended to the buffer so far
Appended == 1..(nextTick - 1)

\* C29: at the step in which stop() returns, the buffer is empty and every tick
\* that was appended to the buffer has been passed to insert_batch. Stated in its
\* weakest reading: stop() returns without an exception and the bounded buffer
\* never discarded a tick.
C29_StopDrainsBuffer ==
    [][(stopPc # "done" /\ stopPc' = "done" /\ dropped' = 0)
          => (buffer' = << >> /\ Appended' \subseteq Elements(Flatten(insertCalls')))]_vars

-----------------------------------------------------------------------------
(* Claims about application shutdown, checked under SpecShutdown           *)

\* C30: when shutdown has completed, the WebSocket connections were closed before
\* the store connection pool was, no client of the endpoint is still connected,
\* and every socket the server closed got the normal closure code 1000
C30_ShutdownOrder ==
    shPc = "done" =>
        /\ \A i, j \in DOMAIN shLog :
              (shLog[i] = "close_websockets" /\ shLog[j] = "close_pool") => i < j
        /\ \A ws \in Sockets : sockets[ws].pc # "receiving"
        /\ \A ws \in Sockets : sockets[ws].closed_by = "server" => sockets[ws].code = 1000

-----------------------------------------------------------------------------
(* Further claims about the order entity, checked under SpecOrderFSM       *)

\* C31: transition_to never returns an order whose fields contradict the
\* transition: an order that goes from CREATED to REJECTED has nothing filled
C31_ContradictingPatchRejected ==
    [][(order.status = "CREATED" /\ order'.status = "REJECTED")
          => order'.filled_quantity = 0]_vars

-----------------------------------------------------------------------------
(* Claims about the WebSocket connection manager, checked under SpecBroadcast *)

\* C33: broadcast_json sends only to sockets of the snapshot it took under the
\* lock, the lock is free during every send, and when it has returned no socket
\* whose send failed is in the connection set, while every socket that was added
\* during the broadcast or whose send succeeded is still in it unless its own
\* endpoint called disconnect
C33_BroadcastUsesSnapshot ==
    /\ bcPc = "sending" => (bcLock = "free" /\ bcTodo \subseteq bcSnapshot)
    /\ (bcSent \cup bcDisconnected) \subseteq bcSnapshot
    /\ bcPc = "returned" =>
          /\ bcDisconnected \cap bcConnections = {}
          /\ \A ws \in bcSent \cup bcAdded :
                bcSock[ws] # "left" => ws \in bcConnections

\* a broadcast has returned after one send failed and one succeeded, and a third
\* socket was added while it ran
C33_Witness ==
    /\ bcPc = "returned"
    /\ bcDisconnected # {}
    /\ bcSent # {}
    /\ bcSent \subseteq bcConnections
    /\ bcAdded # {}
    /\ bcAdded \subseteq bcConnections

-----------------------------------------------------------------------------
(* Claims about the broker adapter, checked under SpecBrokerClient         *)

\* C34: no HTTP request is sent while the breaker is OPEN, and an adapter call
\* that fails after exhausting its retries raises failure_count by exactly one
C34_BreakerOutsideRetry ==
    /\ brHttp.breaker # "open"
    /\ brLast.kind = "exhausted" => brLast.after = brLast.before + 1

-----------------------------------------------------------------------------
(* Further claims about the ingestion pipeline, checked under SpecDataAgent *)

\* the raw messages that cannot be parsed into a tick
Unparseable == {raw \in RawMessages : parse_error(raw) # "none"}

\* the stream takes one raw message from the connection it iterates
Receives(raw) ==
    /\ ingestPc = "iter"
    /\ streamPc = "recv"
    /\ streamConn \in connOpen
    /\ stopPc = "init"
    /\ StreamMessageDropped(raw) \/ StreamParseRaises(raw)

\* C35: a message that cannot be parsed into a tick is dropped without affecting
\* the stream: no tick is yielded for it, the client stays CONNECTED on the same
\* open connection, and the stream goes on receiving from that connection
C35_UnparseableMessageDropped ==
    [][\A raw \in Unparseable :
          Receives(raw)
              => /\ nextTick' = nextTick
                 /\ buffer' = buffer
                 /\ wsState' = "connected"
                 /\ wsConn' = wsConn
                 /\ streamPc' = "recv"
                 /\ streamConn' = streamConn
                 /\ streamConn \in connOpen']_vars

\* C40: once stop() has been called the client starts no connection attempt and
\* opens no connection, and after the final drain of stop() no tick is appended
\* to the buffer
C40_NoReconnectAfterStop ==
    [][/\ stopPc # "init"
          => /\ streamPc # "connecting" => streamPc' # "connecting"
             /\ connCount' = connCount
       /\ stopPc \in {"insert", "done", "failed"}
          => nextTick' = nextTick]_vars

-----------------------------------------------------------------------------
(* Further claims about the auth client, checked under SpecAuthClient      *)

\* C36: get_access_token returns the cached token without a request to the auth
\* server exactly when a token exists and the clock is more than 60 s before
\* its expiry; otherwise the call does not return the cached token
C36_CachedUntilSixtySecondsBeforeExpiry ==
    [][\A c \in AuthCallers :
          (authCalls[c].pc = "idle" /\ authCalls'[c].pc # "idle")
              => ((authToken.access_token # 0 /\ authNow < authToken.expires_at - 60)
                     <=> /\ authCalls'[c].pc = "returned"
                         /\ authCalls'[c].result = authToken.access_token
                         /\ authRequests' = authRequests)]_vars

-----------------------------------------------------------------------------
(* Further claims about the circuit breaker, checked under SpecCircuitBreaker *)

\* the step is the successful return of a call that the breaker admitted as a
\* probe: it found the breaker OPEN past the timeout, or HALF_OPEN
ProbeSucceeds ==
    \E c \in CbCalls :
        /\ cbCalls[c].pc = "inflight"
        /\ cbCalls'[c].outcome = "ok"
        /\ cbCalls[c].entry_state \in {"open", "half_open"}

\* C39: the breaker never goes from OPEN directly to CLOSED except by reset(),
\* and whenever it becomes CLOSED the step is a reset() or the success of a
\* probe; a call admitted while CLOSED that succeeds leaves an OPEN breaker OPEN
C39_NoOpenToClosed ==
    [][/\ (cbState = "open" /\ cbState' = "closed") => cbLast'.kind = "reset"
       /\ (cbState # "closed" /\ cbState' = "closed")
             => (cbLast'.kind = "reset" \/ ProbeSucceeds)]_vars

-----------------------------------------------------------------------------
(* Claims about the connection pool, checked under SpecConnectionPool      *)

\* C38: once shutdown() has returned no handle the pool opened is open, whatever
\* the worker threads were doing while it ran
C38_ShutdownClosesEveryHandle ==
    dpShPc = "done" => dpOpen = {}

-----------------------------------------------------------------------------
(* Claims about the rate limiter, checked under SpecRateLimit              *)

\* the peers outside every trusted proxy network, the unknown peer included
UntrustedPeers == {<<203, 0, 113, 7>>, <<172, 32, 0, 1>>, UNKNOWN_HOST}

\* the buckets of the kind of path the last request went to
BucketsOf(path, default_buckets, order_buckets) ==
    IF path = "orders" THEN order_buckets ELSE default_buckets

\* C37: a request from a peer outside the trusted proxy networks is limited under
\* the peer address whatever its forwarded-IP header says: it is served from the
\* bucket kept for the peer, and the buckets of all other clients stay as they
\* are or are evicted
C37_UntrustedPeerKeyedByAddress ==
    /\ [](rlLast.kind = "limited" /\ rlLast.peer \in UntrustedPeers
             => rlLast.client_ip = rlLast.peer)
    /\ [][(rlHandled' = rlHandled + 1 /\ rlLast'.kind = "limited"
              /\ rlLast'.peer \in UntrustedPeers)
             => LET before == BucketsOf(rlLast'.path, rlBuckets, rlOrderBuckets)
                    after == BucketsOf(rlLast'.path, rlBuckets', rlOrderBuckets')
                IN  /\ rlLast'.peer \in DOMAIN after
                    /\ rlLast'.peer \in DOMAIN rlLastSeen'
                    /\ \A k \in DOMAIN after \ {rlLast'.peer} :
                          k \in DOMAIN before /\ after[k] = before[k]]_vars

\* an untrusted peer has sent two requests to the same kind of path, the second
\* with a forwarded-IP header naming another client, and both were served from
\* the peer's bucket, which is the only one
C37_Witness ==
    /\ rlLast.kind = "limited"
    /\ rlLast.peer = <<203, 0, 113, 7>>
    /\ rlLast.forwarded = <<<<172, 32, 0, 1>>>>
    /\ rlLast.path = "other"
    /\ rlRequestCount = 2
    /\ DOMAIN rlBuckets = {<<203, 0, 113, 7>>}
    /\ rlBuckets[<<203, 0, 113, 7>>].tokens = (REQUESTS_PER_MINUTE - 2) * TOKEN

====
